---- MODULE Spec2Model ----
(***************************************************************************)
(* A model of the screening funnel of stock_all: the indicator library     *)
(* (indicators.py), the monthly classifier and weekly scorer               *)
(* (weekly_scan.py), the daily trigger detector and stop-loss              *)
(* (daily_scan.py) and the rule score of the ranker (ml_ranker.py).        *)
(*                                                                         *)
(* Numbers.  Prices and volumes are integers (ticks, lots).  Fractions of  *)
(* the configuration are integers in a stated unit (per-mille, tenths,     *)
(* hundredths), and every comparison of the code is cross-multiplied so    *)
(* that it is decided exactly.  An absent value (pandas NaN) is the empty  *)
(* tuple NaN, a present value v is <<v>>.  Exponential averages, whose     *)
(* exact values leave the integer range, are kept in fixed point.          *)
(***************************************************************************)
EXTENDS Integers, Sequences, FiniteSets, TLC

VARIABLES
    mode,            \* which function the harness drives
    pc,              \* "start" before the call, "done" after it
    daily_df,        \* calculate_stop_loss / detect_breakout_trigger: the daily frame
    entry_price,     \* calculate_stop_loss: entry price, in ticks
    config,          \* the configuration section the function reads
    stop_result,     \* calculate_stop_loss: (stop_loss, risk_pct)
    features,        \* calculate_score: the feature dictionary
    prophet_pred,    \* calculate_score: the forecast result, or absent
    ml_score,        \* calculate_score: [pre |-> score before the clamp, score |-> returned]
    row_index,       \* calculate_all_indicators: the bar index (from 1) last computed
    indicator_row,   \* calculate_all_indicators: the indicator values at row_index
    weekly_df,       \* check_weekly_structure: the caller's weekly frame
    weekly_result,   \* check_weekly_structure: the returned dictionary, or the exception
    monthly_df,      \* judge_monthly_trend: the caller's monthly frame
    monthly_label,   \* judge_monthly_trend: the label of the latest call
    first_label,     \* judge_monthly_trend: the label of the first call
    calls,           \* judge_monthly_trend: calls made on monthly_df so far
    weekly_pivot,    \* detect_breakout_trigger: the pivot price
    breakout_signal, \* detect_breakout_trigger: the returned signal, or None
    pullback_signal, \* detect_pullback_trigger: the returned signal, or None
    signal,          \* daily process_single_stock: the signal it goes on with, or None
    daily_file,      \* load_kline_data: the daily CSV file of the instrument
    prefilter,       \* pre_filter_stock: the returned (passed, reason)
    result,          \* weekly process_single_stock: the returned row, or None
    stock_dirs,      \* main: the instruments of the data directory, in loop order
    position,        \* main: the index of the next instrument (or watchlist row)
    results,         \* main / rank_stocks: the rows collected by the loop
    skipped,         \* the instruments whose processing raised, by stage
    visited,         \* the instruments the loop body ran on, by stage
    stage_config,    \* the configuration the ranking or daily program loaded
    signals,         \* daily main: the signals collected by the loop
    watchlist_file,  \* the watchlist CSV on disk, or NoFile
    signals_file,    \* the daily-signals CSV on disk, or NoFile
    ranked,          \* rank_stocks: the returned table
    exit_code        \* the exit code of each program; -1 before it has returned

stopVars     == <<entry_price, stop_result>>
scoreVars    == <<features, prophet_pred, ml_score>>
indVars      == <<row_index, indicator_row>>
weeklyVars   == <<weekly_df, weekly_result>>
monthlyVars  == <<monthly_df, monthly_label, first_label, calls>>
breakoutVars == <<weekly_pivot, breakout_signal>>
runVars      == <<pullback_signal, signal, daily_file, prefilter>>
loopVars     == <<stock_dirs, position, results, skipped, visited, stage_config, signals,
                 watchlist_file, signals_file, ranked, exit_code>>
scanVars     == <<result, stock_dirs, position, results, skipped, visited, stage_config,
                 signals, watchlist_file, signals_file, ranked, exit_code>>

vars == <<mode, pc, daily_df, config, stopVars, scoreVars, indVars,
          weeklyVars, monthlyVars, breakoutVars, runVars,
          scanVars>>

(***************************************************************************)
(* Absent values and small helpers                                         *)
(***************************************************************************)
NaN == <<>>
Num(v) == <<v>>
IsNaN(x) == x = NaN
Val(x) == x[1]

Max2(a, b) == IF a >= b THEN a ELSE b
Min2(a, b) == IF a <= b THEN a ELSE b

RECURSIVE SeqMin(_)
SeqMin(s) == IF Len(s) = 1 THEN s[1] ELSE Min2(s[1], SeqMin(Tail(s)))

RECURSIVE SeqMax(_)
SeqMax(s) == IF Len(s) = 1 THEN s[1] ELSE Max2(s[1], SeqMax(Tail(s)))

RECURSIVE SeqSum(_)
SeqSum(s) == IF Len(s) = 0 THEN 0 ELSE s[1] + SeqSum(Tail(s))

\* df.tail(n): the last n rows, all of them when there are fewer
DfTail(s, n) == IF Len(s) <= n THEN s ELSE SubSeq(s, Len(s) - n + 1, Len(s))

\* df.head(n)
DfHead(s, n) == IF Len(s) <= n THEN s ELSE SubSeq(s, 1, n)

Idle == "idle"

\* the variables of the functions a harness does not drive
StopIdle     == entry_price = Idle /\ stop_result = Idle
ScoreIdle    == features = Idle /\ prophet_pred = Idle /\ ml_score = Idle
IndIdle      == row_index = 0 /\ indicator_row = Idle
WeeklyIdle   == weekly_df = Idle /\ weekly_result = Idle
MonthlyIdle  == monthly_df = Idle /\ monthly_label = Idle /\ first_label = Idle /\ calls = 0
BreakoutIdle == weekly_pivot = Idle /\ breakout_signal = Idle
RunIdle      == pullback_signal = Idle /\ signal = Idle /\ daily_file = Idle /\ prefilter = Idle
ScanIdle     ==
    /\ result = Idle /\ stock_dirs = Idle /\ position = 0 /\ results = <<>>
    /\ skipped = Idle /\ visited = Idle /\ stage_config = Idle /\ signals = <<>>
    /\ watchlist_file = Idle /\ signals_file = Idle /\ ranked = Idle
    /\ exit_code = 0

(***************************************************************************)
(* calculate_stop_loss (daily_scan.py).  Stops are kept in thousandths of  *)
(* a tick: initial_pct is in per-mille, atr_multiplier in tenths.          *)
(***************************************************************************)
MaxEntry == 12
MaxAtr == 3

\* stop1 = entry_price * (1 - initial_pct)
Stop1(entry, params) == entry * (1000 - params.initial_pct)

\* stop2 = entry_price, or entry_price - latest_atr * atr_multiplier when the
\* ATR column exists and its latest value is present
Stop2(df, entry, params) ==
    IF df.has_atr /\ ~IsNaN(df.ATR)
    THEN 1000 * entry - 100 * Val(df.ATR) * params.atr_multiplier
    ELSE 1000 * entry

\* stop3 = entry_price, or 0.99 * min low of the last 20 sessions
Stop3(df, entry, params) ==
    IF params.use_structure_low
    THEN 990 * SeqMin(DfTail(df.low, 20))
    ELSE 1000 * entry

\* the clamp: a risk above 10% forces the stop to entry * 0.90
ClampStopAlways(entry, stop) == 900 * entry
ClampStop(entry, stop) ==
    IF 10 * (1000 * entry - stop) > 1000 * entry THEN 900 * entry ELSE stop

\* (stop_loss, risk_pct); risk_pct = risk_num / risk_den
calculate_stop_loss(df, entry, params) ==
    LET stop_loss == ClampStop(entry,
            Max2(Stop1(entry, params), Max2(Stop2(df, entry, params), Stop3(df, entry, params))))
    IN [stop_loss |-> stop_loss,
        risk_num  |-> 1000 * entry - stop_loss,
        risk_den  |-> 1000 * entry]

StopParams ==
    [initial_pct : {50, 80, 150}, atr_multiplier : {15, 20, 40},
     use_structure_low : BOOLEAN]

\* the frame as calculate_stop_loss reads it: the ATR column (it may be missing,
\* and its latest value absent) and the lows of the trailing sessions, the
\* latest of them not above the entry price (the latest close)
StopFrames ==
    [has_atr : BOOLEAN, ATR : {NaN} \cup {Num(a) : a \in 0..MaxAtr},
     low : {<<l1, l2>> : l1 \in {6, 9, 11}, l2 \in {5, 9, 10}}]

InitStopLoss ==
    /\ mode = "stop_loss"
    /\ pc = "start"
    /\ daily_df \in StopFrames
    /\ entry_price \in {10, MaxEntry}
    /\ config \in StopParams
    /\ stop_result = Idle
    /\ ScoreIdle /\ IndIdle /\ WeeklyIdle /\ MonthlyIdle /\ BreakoutIdle /\ RunIdle /\ ScanIdle

CallStopLoss ==
    /\ mode = "stop_loss" /\ pc = "start"
    /\ stop_result' = calculate_stop_loss(daily_df, entry_price, config)
    /\ pc' = "done"
    /\ UNCHANGED <<mode, daily_df, entry_price, config, scoreVars, indVars,
                   weeklyVars, monthlyVars, breakoutVars, runVars, scanVars>>

NextStopLoss == CallStopLoss

SpecStopLoss == InitStopLoss /\ [][NextStopLoss]_vars

\* C1: for every entry price > 0, every latest ATR (absent included) and every
\* stop-loss configuration, the returned stop-loss is strictly below the entry
\* price and the risk fraction (entry - stop)/entry is at most 0.10.
C1_StopBelowEntryRiskCapped ==
    (mode = "stop_loss" /\ pc = "done") =>
        /\ stop_result.stop_loss < 1000 * entry_price
        /\ 10 * stop_result.risk_num <= stop_result.risk_den

(***************************************************************************)
(* MLRanker.calculate_score (ml_ranker.py).  A feature dictionary is a     *)
(* function from the names it holds to integers: slopes, returns and the   *)
(* forecast return in per-mille, ratios and the confidence in hundredths.  *)
(***************************************************************************)
\* features.get(name, default)
Get(d, name, default) == IF name \in DOMAIN d THEN d[name] ELSE default

\* trend features, lines 190-210
TrendPoints(f) ==
    (IF Get(f, "MA10_slope", 0) > 20 THEN 10
     ELSE IF Get(f, "MA10_slope", 0) > 0 THEN 5 ELSE 0)
    + (IF Get(f, "return_6m", 0) > 100 THEN 10
       ELSE IF Get(f, "return_6m", 0) > 0 THEN 5 ELSE 0)
    + (IF Get(f, "ma_alignment", 0) >= 2 THEN 10
       ELSE IF Get(f, "ma_alignment", 0) >= 1 THEN 5 ELSE 0)

\* volatility and consolidation features, lines 212-225
VolatilityPoints(f) ==
    (IF Get(f, "volatility_contraction", 100) < 70 THEN 10
     ELSE IF Get(f, "volatility_contraction", 100) < 90 THEN 5 ELSE 0)
    + (IF Get(f, "consolidation_score", 0) >= 6 THEN 10
       ELSE IF Get(f, "consolidation_score", 0) >= 4 THEN 5 ELSE 0)

\* volume features, lines 227-238
VolumePoints(f) ==
    (IF Get(f, "volume_up_down_ratio", 0) > 150 THEN 10
     ELSE IF Get(f, "volume_up_down_ratio", 0) > 120 THEN 5 ELSE 0)
    + (IF Get(f, "volume_cooperation", 0) = 1 THEN 10 ELSE 0)

\* momentum features, lines 240-254; the MACD tier adds 3 (its comment says 5)
MomentumPointsMacdFive(f) ==
    (IF Get(f, "MACD", 0) > 0 THEN 5 ELSE 0)
    + (IF Get(f, "macd_cross", 0) = 1 THEN 2 ELSE 0)
    + (IF Get(f, "momentum_6m", 0) > 0 THEN 5 ELSE 0)
MomentumPoints(f) ==
    (IF Get(f, "MACD", 0) > 0 THEN 3 ELSE 0)
    + (IF Get(f, "macd_cross", 0) = 1 THEN 2 ELSE 0)
    + (IF Get(f, "momentum_6m", 0) > 0 THEN 5 ELSE 0)

\* forecast tiers, lines 256-277; pred is <<>> (None) or <<the result>>
ForecastPoints(pred) ==
    IF pred = <<>> THEN 0
    ELSE LET r == pred[1].forecast_return
             c == pred[1].confidence
         IN (IF r > 150 THEN 15
             ELSE IF r > 100 THEN 12
             ELSE IF r > 50 THEN 8
             ELSE IF r > 20 THEN 4
             ELSE IF r < -50 THEN -10 ELSE 0)
            + (IF c > 80 THEN 5 ELSE IF c > 60 THEN 3 ELSE 0)

\* score before the final clamp: base 50 plus the tiers
ScoreBeforeClamp(f, pred) ==
    50 + TrendPoints(f) + VolatilityPoints(f) + VolumePoints(f)
       + MomentumPoints(f) + ForecastPoints(pred)

\* min(max(score, 0), 100), line 280
NoClamp(score) == score
ClampScore(score) == Min2(Max2(score, 0), 100)

calculate_score(f, pred) == ClampScore(ScoreBeforeClamp(f, pred))

FeatureNames ==
    {"MA10_slope", "return_6m", "ma_alignment", "volatility_contraction",
     "consolidation_score", "volume_up_down_ratio", "volume_cooperation",
     "MACD", "macd_cross", "momentum_6m"}

\* full dictionaries: a zero or losing value, and values on each side of the tiers
FullFeatures ==
    [MA10_slope : {0, 10, 30}, return_6m : {-900, 0, 150},
     ma_alignment : {0, 1, 2}, volatility_contraction : {0, 80, 100},
     consolidation_score : {0, 4, 8}, volume_up_down_ratio : {0, 130, 100000},
     volume_cooperation : {0, 1}, MACD : {-5, 5}, macd_cross : {0, 1},
     momentum_6m : {-5, 5}]

\* the keys a dictionary may lack
MissingKeySets == {{}, {"volatility_contraction", "MA10_slope"}, FeatureNames}

Without(f, keys) == [k \in (DOMAIN f) \ keys |-> f[k]]

ForecastResults ==
    {<<>>} \cup
    {<<[forecast_return |-> p[1], confidence |-> p[2]]>> :
        p \in {<<-900, 50>>, <<-50, 90>>, <<0, 70>>, <<30, 90>>,
               <<60, 50>>, <<120, 70>>, <<200, 90>>}}

InitScore ==
    /\ mode = "score"
    /\ pc = "start"
    /\ \E f \in FullFeatures, m \in MissingKeySets : features = Without(f, m)
    /\ prophet_pred \in ForecastResults
    /\ ml_score = Idle
    /\ daily_df = Idle /\ config = Idle
    /\ StopIdle /\ IndIdle /\ WeeklyIdle /\ MonthlyIdle /\ BreakoutIdle /\ RunIdle /\ ScanIdle

CallScore ==
    /\ mode = "score" /\ pc = "start"
    /\ ml_score' = [pre   |-> ScoreBeforeClamp(features, prophet_pred),
                    score |-> calculate_score(features, prophet_pred)]
    /\ pc' = "done"
    /\ UNCHANGED <<mode, daily_df, config, stopVars, features, prophet_pred, indVars,
                   weeklyVars, monthlyVars, breakoutVars, runVars, scanVars>>

NextScore == CallScore

SpecScore == InitScore /\ [][NextScore]_vars

\* C2: calculate_score returns a value in [0,100] for every feature dictionary
\* (all-zero, missing keys, extreme values) and every forecast, present or absent.
C2_ScoreInRange ==
    (mode = "score" /\ pc = "done") => (ml_score.score >= 0 /\ ml_score.score <= 100)

\* the tiers alone exceed 100 and the clamp returns 100
C2_Witness ==
    mode = "score" /\ pc = "done" /\ ml_score.pre > 100 /\ ml_score.score = 100

(***************************************************************************)
(* The indicator library (indicators.py).  A frame is a record of columns  *)
(* of equal length: close, high, low (ticks) and volume (<<lots>>, or NaN   *)
(* where pd.to_numeric(errors='coerce') found no number), and the set      *)
(* `columns` of the indicator columns added to it.  Rows are numbered      *)
(* from 1.  An indicator is computed at a row from the rows up to it.      *)
(* A moving average is kept as the sum of its window (MA x period), a      *)
(* ratio as numerator and denominator.                                     *)
(***************************************************************************)
NRows(df) == Len(df.close)

RECURSIVE SumRange(_, _, _)
SumRange(col, a, b) == IF a > b THEN 0 ELSE col[b] + SumRange(col, a, b - 1)

RECURSIVE MaxRange(_, _, _)
MaxRange(col, a, b) == IF a >= b THEN col[b] ELSE Max2(col[b], MaxRange(col, a, b - 1))

Abs(x) == IF x < 0 THEN -x ELSE x

\* rolling(window=period).mean() of close: absent until the window is full
MAPartialWindow(df, period, k) == Num(SumRange(df.close, Max2(1, k - period + 1), k))
MA(df, period, k) ==
    IF k < period THEN NaN ELSE Num(SumRange(df.close, k - period + 1, k))

\* ewm(span, adjust=False).mean(): y1 = x1, y = ((span-1) y' + 2 x) / (span+1),
\* in thousandths of a tick; the signal line is the span-9 average of MACD
MacdStep(st, x) ==
    [fast   |-> (11 * st.fast + 2000 * x) \div 13,
     slow   |-> (25 * st.slow + 2000 * x) \div 27,
     signal |-> (8 * st.signal + 2 * ((11 * st.fast + 2000 * x) \div 13
                                       - (25 * st.slow + 2000 * x) \div 27)) \div 10]

\* the averages after row k, from their values st after row j: one step a row,
\* the rows taken in two halves (the test on `half` only makes the evaluation
\* finish the first half before it starts the second)
RECURSIVE MacdFrom(_, _, _, _)
MacdFrom(close, j, k, st) ==
    IF j >= k THEN st
    ELSE IF k = j + 1 THEN MacdStep(st, close[k])
    ELSE LET half == MacdFrom(close, j, (j + k) \div 2, st)
         IN IF half.fast >= 0 THEN MacdFrom(close, (j + k) \div 2, k, half)
                              ELSE MacdFrom(close, (j + k) \div 2, k, half)

MacdState(close, k) ==
    MacdFrom(close, 1, k, [fast |-> 1000 * close[1], slow |-> 1000 * close[1], signal |-> 0])

\* MACD = ema_fast - ema_slow, signal, histogram = MACD - signal: the exponential
\* averages have a value at every row, the first included
calculate_macd(df, k) ==
    LET m == MacdState(df.close, k)
    IN [MACD |-> Num(m.fast - m.slow), MACD_signal |-> Num(m.signal),
        MACD_hist |-> Num(m.fast - m.slow - m.signal)]

\* close.diff(): absent at the first row
Delta(close, j) == IF j = 1 THEN NaN ELSE Num(close[j] - close[j - 1])

\* gain = delta.where(delta > 0, 0), loss = -delta.where(delta < 0, 0): an absent
\* delta becomes 0
Gain(close, j) ==
    IF ~IsNaN(Delta(close, j)) /\ Val(Delta(close, j)) > 0 THEN Val(Delta(close, j)) ELSE 0
Loss(close, j) ==
    IF ~IsNaN(Delta(close, j)) /\ Val(Delta(close, j)) < 0 THEN -Val(Delta(close, j)) ELSE 0

RECURSIVE GainSum(_, _, _)
GainSum(close, a, b) == IF a > b THEN 0 ELSE Gain(close, b) + GainSum(close, a, b - 1)
RECURSIVE LossSum(_, _, _)
LossSum(close, a, b) == IF a > b THEN 0 ELSE Loss(close, b) + LossSum(close, a, b - 1)

\* RSI = 100 - 100 / (1 + avg_gain / avg_loss) = 100 g / (g + l); 0/0 is absent
calculate_rsi(df, k) ==
    IF k < 14 THEN NaN
    ELSE LET g == GainSum(df.close, k - 13, k)
             l == LossSum(df.close, k - 13, k)
         IN IF g = 0 /\ l = 0 THEN NaN ELSE Num([g |-> g, l |-> l])

\* true range: max(high - low, |high - prev close|, |low - prev close|); the
\* row-wise max skips the two absent terms of the first row
TrueRange(df, j) ==
    IF j = 1 THEN df.high[1] - df.low[1]
    ELSE Max2(df.high[j] - df.low[j],
              Max2(Abs(df.high[j] - df.close[j - 1]), Abs(df.low[j] - df.close[j - 1])))

RECURSIVE TrSum(_, _, _)
TrSum(df, a, b) == IF a > b THEN 0 ELSE TrueRange(df, b) + TrSum(df, a, b - 1)

\* ATR x 14
calculate_atr(df, k) == IF k < 14 THEN NaN ELSE Num(TrSum(df, k - 13, k))

\* number of present values and their sum in rows a..b of a column that may hold NaN
RECURSIVE CountPresent(_, _, _)
CountPresent(col, a, b) ==
    IF a > b THEN 0
    ELSE (IF IsNaN(col[b]) THEN 0 ELSE 1) + CountPresent(col, a, b - 1)
RECURSIVE SumPresent(_, _, _)
SumPresent(col, a, b) ==
    IF a > b THEN 0
    ELSE (IF IsNaN(col[b]) THEN 0 ELSE Val(col[b])) + SumPresent(col, a, b - 1)

\* volume / rolling(20).mean(): absent until 20 present volumes fill the window,
\* and 0/0 is absent; the ratio is 20 v / sum
calculate_volume_ratio(df, k) ==
    IF k < 20 \/ CountPresent(df.volume, k - 19, k) < 20 THEN NaN
    ELSE LET sum == SumPresent(df.volume, k - 19, k)
         IN IF sum = 0 THEN NaN ELSE Num([v |-> Val(df.volume[k]), sum |-> sum])

\* close / rolling(52).max()
calculate_price_position(df, k) ==
    IF k < 52 THEN NaN
    ELSE Num([close |-> df.close[k], highest |-> MaxRange(df.close, k - 51, k)])

\* sum over x = 0..5 of (2x - 5) y[x]: 35 times the regression slope of 6 points
RECURSIVE SlopeNum(_, _, _, _)
SlopeNum(df, period, k, x) ==
    IF x < 0 THEN 0
    ELSE (2 * x - 5) * Val(MA(df, period, k - 5 + x)) + SlopeNum(df, period, k, x - 1)

\* calculate_ma_slope with lookback 6: absent before row 6, where the average is
\* absent or where one of the 6 averages is; else slope / average, 0 for a zero
\* average.  The value is num / den.
calculate_ma_slope(df, period, k) ==
    IF k < 6 \/ IsNaN(MA(df, period, k)) THEN NaN
    ELSE IF IsNaN(MA(df, period, k - 5)) THEN NaN
    ELSE IF Val(MA(df, period, k)) = 0 THEN Num([num |-> 0, den |-> 1])
    ELSE Num([num |-> SlopeNum(df, period, k, 5), den |-> 35 * Val(MA(df, period, k))])

\* the moving averages calculate_all_indicators computes for a frequency
MaPeriods(freq) ==
    IF freq = "daily" THEN {5, 10, 20, 40, 60}
    ELSE IF freq = "weekly" THEN {5, 10, 20, 40}
    ELSE {5, 10, 20}

MaName(period) ==
    CASE period = 5 -> "MA5" [] period = 10 -> "MA10" [] period = 20 -> "MA20"
      [] period = 40 -> "MA40" [] period = 60 -> "MA60"

\* the columns calculate_all_indicators adds
IndicatorColumns(freq) ==
    {MaName(p) : p \in MaPeriods(freq)}
    \cup {"MACD", "MACD_signal", "MACD_hist", "RSI", "ATR", "volume_ratio",
          "price_position", "MA10_slope"}
    \cup (IF 40 \in MaPeriods(freq) THEN {"MA40_slope"} ELSE {})

\* calculate_all_indicators: the frame it returns (a copy with the columns added)
calculate_all_indicators(df, freq) ==
    [df EXCEPT !.columns = @ \cup IndicatorColumns(freq)]

\* df = df.copy(): the function works on a copy, so the frame the caller holds is
\* left as it was, whatever the function did to its own
CallerFrameShared(df, worked) == worked
CallerFrame(df, worked) == df

\* a column of the frame at row k; absent when the frame has no such column
Column(df, name, k) ==
    IF name \notin df.columns THEN NaN
    ELSE CASE name = "MA5" -> MA(df, 5, k)
           [] name = "MA10" -> MA(df, 10, k)
           [] name = "MA20" -> MA(df, 20, k)
           [] name = "MA40" -> MA(df, 40, k)
           [] name = "MA60" -> MA(df, 60, k)
           [] name = "MACD" -> calculate_macd(df, k).MACD
           [] name = "MACD_signal" -> calculate_macd(df, k).MACD_signal
           [] name = "MACD_hist" -> calculate_macd(df, k).MACD_hist
           [] name = "RSI" -> calculate_rsi(df, k)
           [] name = "ATR" -> calculate_atr(df, k)
           [] name = "volume_ratio" -> calculate_volume_ratio(df, k)
           [] name = "price_position" -> calculate_price_position(df, k)
           [] name = "MA10_slope" -> calculate_ma_slope(df, 10, k)
           [] name = "MA40_slope" -> calculate_ma_slope(df, 40, k)

\* the indicator values of row k
IndicatorRow(df, k) == [name \in df.columns |-> Column(df, name, k)]

(***************************************************************************)
(* Frames as load_kline_data hands them over: sorted by date, one row per  *)
(* bar.  The closes of a shape move by d1 a bar for n1 bars, then by d2    *)
(* for n2 bars, then by d3 to the end; a bar's volume follows the          *)
(* direction of its close (up, down, flat), and the last `halt` bars may   *)
(* be suspended sessions without a volume.  A bar opens at the close of    *)
(* the bar before it.                                                      *)
(***************************************************************************)
Pos(x) == IF x > 0 THEN x ELSE 0

ShapeLen(sh) == sh.n1 + sh.n2 + sh.n3

ShapeClose(sh, k) ==
    sh.p0 + sh.d1 * Min2(k, sh.n1) + sh.d2 * Min2(Pos(k - sh.n1), sh.n2)
          + sh.d3 * Pos(k - sh.n1 - sh.n2)

ShapeVolume(sh, k) ==
    IF k > ShapeLen(sh) - sh.halt THEN NaN
    ELSE IF k = 1 THEN Num(sh.vflat)
    ELSE IF ShapeClose(sh, k) > ShapeClose(sh, k - 1) THEN Num(sh.vup)
    ELSE IF ShapeClose(sh, k) < ShapeClose(sh, k - 1) THEN Num(sh.vdown)
    ELSE Num(sh.vflat)

Frame(sh) ==
    [close   |-> [k \in 1..ShapeLen(sh) |-> ShapeClose(sh, k)],
     open    |-> [k \in 1..ShapeLen(sh) |-> ShapeClose(sh, Max2(k - 1, 1))],
     high    |-> [k \in 1..ShapeLen(sh) |-> ShapeClose(sh, k) + sh.wick],
     low     |-> [k \in 1..ShapeLen(sh) |-> ShapeClose(sh, k) - sh.wick],
     volume  |-> [k \in 1..ShapeLen(sh) |-> ShapeVolume(sh, k)],
     columns |-> {}]

(***************************************************************************)
(* calculate_all_indicators, row by row                                    *)
(***************************************************************************)
MaxBars == 61

IndicatorShapes ==
    [p0 : {30}, n1 : {20}, d1 : {0, 1}, n2 : {20}, d2 : {-1, 0}, n3 : {MaxBars - 40},
     d3 : {0, 1}, vup : {30}, vdown : {20}, vflat : {0, 10}, wick : {0, 1}, halt : {0}]

InitIndicators ==
    /\ mode = "indicators"
    /\ pc = "start"
    /\ \E sh \in IndicatorShapes : daily_df = calculate_all_indicators(Frame(sh), "daily")
    /\ config = Idle
    /\ row_index = 0 /\ indicator_row = Idle
    /\ StopIdle /\ ScoreIdle /\ WeeklyIdle /\ MonthlyIdle /\ BreakoutIdle /\ RunIdle /\ ScanIdle

\* the values of the next row of the frame
ComputeRow ==
    /\ mode = "indicators" /\ row_index < NRows(daily_df)
    /\ row_index' = row_index + 1
    /\ indicator_row' = IndicatorRow(daily_df, row_index + 1)
    /\ pc' = IF row_index + 1 = NRows(daily_df) THEN "done" ELSE "rows"
    /\ UNCHANGED <<mode, daily_df, config, stopVars, scoreVars,
                   weeklyVars, monthlyVars, breakoutVars, runVars, scanVars>>

NextIndicators == ComputeRow

SpecIndicators == InitIndicators /\ [][NextIndicators]_vars

\* the bars an indicator needs before its window is full
Lookback(name) ==
    CASE name = "MA5" -> 5 [] name = "MA10" -> 10 [] name = "MA20" -> 20
      [] name = "MA40" -> 40 [] name = "MA60" -> 60
      [] name = "MACD" -> 26 [] name = "MACD_signal" -> 34 [] name = "MACD_hist" -> 34
      [] name = "RSI" -> 14 [] name = "ATR" -> 14 [] name = "volume_ratio" -> 20
      [] name = "price_position" -> 52
      [] name = "MA10_slope" -> 15 [] name = "MA40_slope" -> 45

MacdColumns == {"MACD", "MACD_signal", "MACD_hist"}

FrameTail(df, n) ==
    [df EXCEPT !.close = DfTail(@, n), !.open = DfTail(@, n), !.high = DfTail(@, n),
               !.low = DfTail(@, n), !.volume = DfTail(@, n)]

\* the rows of `rows` the predicate on the close change keeps
UpRows(df, rows) == {j \in rows : j > 1 /\ df.close[j] > df.close[j - 1]}
DownRows(df, rows) == {j \in rows : j > 1 /\ df.close[j] < df.close[j - 1]}

RECURSIVE SumOver(_, _)
SumOver(col, rows) ==
    IF rows = {} THEN 0
    ELSE LET j == CHOOSE x \in rows : TRUE
         IN (IF IsNaN(col[j]) THEN 0 ELSE Val(col[j])) + SumOver(col, rows \ {j})

PresentIn(col, rows) == {j \in rows : ~IsNaN(col[j])}

\* Series.mean() over the rows: NaN entries are skipped, no entry left is NaN
MeanOver(col, rows) ==
    IF PresentIn(col, rows) = {} THEN NaN
    ELSE Num([n |-> SumOver(col, rows), d |-> Cardinality(PresentIn(col, rows))])

\* analyze_volume_pattern(df, lookback).  A frame shorter than lookback gets the
\* short dictionary, which has no 'volume_ratio' entry.
analyze_volume_pattern(df, lookback) ==
    IF NRows(df) < lookback
    THEN [keys |-> {"up_volume_ratio", "down_volume_ratio", "volume_cooperation"},
          volume_cooperation |-> FALSE, volume_ratio |-> NaN]
    ELSE LET first == NRows(df) - lookback + 1
             \* price_change = recent['close'].diff(): absent at the first row of recent
             rows == (first + 1)..NRows(df)
             up == UpRows(df, rows)
             down == DownRows(df, rows)
             up_volume == IF up # {} THEN MeanOver(df.volume, up) ELSE Num([n |-> 0, d |-> 1])
             down_volume == IF down # {} THEN MeanOver(df.volume, down) ELSE Num([n |-> 1, d |-> 1])
             \* up_volume / down_volume if down_volume > 0 else 0
             volume_ratio ==
                 IF IsNaN(down_volume) \/ Val(down_volume).n <= 0 THEN Num([num |-> 0, den |-> 1])
                 ELSE IF IsNaN(up_volume) THEN NaN
                 ELSE Num([num |-> Val(up_volume).n * Val(down_volume).d,
                           den |-> Val(up_volume).d * Val(down_volume).n])
         IN [keys |-> {"up_volume_ratio", "down_volume_ratio", "volume_cooperation",
                       "volume_ratio"},
             \* volume_ratio > 1.2
             volume_cooperation |->
                 ~IsNaN(volume_ratio) /\ 10 * Val(volume_ratio).num > 12 * Val(volume_ratio).den,
             volume_ratio |-> volume_ratio]

\* a > b on two moving averages kept as window sums; False when one is absent
MaAbove(df, pa, pb, k) ==
    ~IsNaN(MA(df, pa, k)) /\ ~IsNaN(MA(df, pb, k))
    /\ Val(MA(df, pa, k)) * pb > Val(MA(df, pb, k)) * pa

\* check_ma_alignment(df.tail(1), ['MA5', 'MA10', 'MA20'], ascending=True) at row k
check_ma_alignment(df, k) == MaAbove(df, 5, 10, k) /\ MaAbove(df, 10, 20, k)

\* MACD - MACD_signal at row j, in thousandths of a tick
MacdDiff(df, j) == Val(calculate_macd(df, j).MACD_hist)

\* detect_macd_golden_cross(df, lookback)
detect_macd_golden_cross(df, lookback) ==
    IF ~({"MACD", "MACD_signal"} \subseteq df.columns) THEN FALSE
    ELSE IF NRows(df) < lookback + 1 THEN FALSE
    ELSE \E j \in (NRows(df) - lookback + 1)..NRows(df) :
             MacdDiff(df, j - 1) <= 0 /\ MacdDiff(df, j) > 0

(***************************************************************************)
(* check_weekly_structure (weekly_scan.py)                                 *)
(***************************************************************************)
\* gate 1: close above the 40-week average
Ma40Gate(df, params) ==
    IF params.close_above_ma40 /\ "MA40" \in df.columns
    THEN IF IsNaN(MA(df, 40, NRows(df))) \/ 40 * df.close[NRows(df)] <= Val(MA(df, 40, NRows(df)))
         THEN [applies |-> TRUE, ok |-> FALSE, points |-> 0]
         ELSE [applies |-> TRUE, ok |-> TRUE, points |-> 20]
    ELSE [applies |-> FALSE, ok |-> TRUE, points |-> 0]

\* gate 2: MA40 slope (num / den) not below ma40_slope_min (per-mille)
Ma40SlopeGate(df, params) ==
    IF "MA40_slope" \in df.columns
    THEN LET sl == calculate_ma_slope(df, 40, NRows(df))
         IN IF IsNaN(sl) \/ 1000 * Val(sl).num < params.ma40_slope_min * Val(sl).den
            THEN [applies |-> TRUE, ok |-> FALSE, points |-> 0]
            ELSE [applies |-> TRUE, ok |-> TRUE, points |-> 15]
    ELSE [applies |-> FALSE, ok |-> TRUE, points |-> 0]

\* gate 3: close above the 10-week average
Ma10Gate(df, params) ==
    IF params.close_above_ma10 /\ "MA10" \in df.columns
    THEN IF IsNaN(MA(df, 10, NRows(df))) \/ 10 * df.close[NRows(df)] <= Val(MA(df, 10, NRows(df)))
         THEN [applies |-> TRUE, ok |-> FALSE, points |-> 0]
         ELSE [applies |-> TRUE, ok |-> TRUE, points |-> 15]
    ELSE [applies |-> FALSE, ok |-> TRUE, points |-> 0]

\* gate 4: MACD histogram positive, or a recent golden cross
MacdGate(df, params) ==
    IF params.macd_positive_or_golden
    THEN LET hist == Column(df, "MACD_hist", NRows(df))
             macd_ok == /\ ~IsNaN(hist)
                        /\ \/ Val(hist) > 0
                           \/ detect_macd_golden_cross(df, params.macd_lookback)
         IN IF ~macd_ok THEN [applies |-> TRUE, ok |-> FALSE, points |-> 0]
            ELSE [applies |-> TRUE, ok |-> TRUE, points |-> 20]
    ELSE [applies |-> FALSE, ok |-> TRUE, points |-> 0]

\* gate 5: volume_analysis['volume_ratio'] not below volume_ratio_min (hundredths);
\* a comparison with an absent ratio is False, so the gate is passed
VolumeGate(volume_analysis, params) ==
    LET vr == volume_analysis.volume_ratio
    IN IF ~IsNaN(vr) /\ 100 * Val(vr).num < params.volume_ratio_min * Val(vr).den
       THEN [applies |-> TRUE, ok |-> FALSE, points |-> 0]
       ELSE [applies |-> TRUE, ok |-> TRUE, points |-> 30]

\* bonus 1: MA40 slope above 0.02, above 0.01
SlopeBonus(df) ==
    LET sl == Column(df, "MA40_slope", NRows(df))
    IN IF IsNaN(sl) THEN 0
       ELSE IF 1000 * Val(sl).num > 20 * Val(sl).den THEN 10
       ELSE IF 1000 * Val(sl).num > 10 * Val(sl).den THEN 5 ELSE 0

\* bonus 2: MACD histogram above 2%, above 1% of the close
MacdBonus(df) ==
    LET hist == Column(df, "MACD_hist", NRows(df))
    IN IF IsNaN(hist) THEN 0
       ELSE IF Val(hist) > 20 * df.close[NRows(df)] THEN 10
       ELSE IF Val(hist) > 10 * df.close[NRows(df)] THEN 5 ELSE 0

\* bonus 3: volume ratio above 1.5, above 1.3
VolumeBonus(volume_analysis) ==
    LET vr == volume_analysis.volume_ratio
    IN IF IsNaN(vr) THEN 0
       ELSE IF 10 * Val(vr).num > 15 * Val(vr).den THEN 10
       ELSE IF 10 * Val(vr).num > 13 * Val(vr).den THEN 5 ELSE 0

\* bonus 4: close 2-10% above the 10-week average, or 10-20% above it
PositionBonus(df) ==
    LET ma == Column(df, "MA10", NRows(df))
        above == 10 * df.close[NRows(df)] - Val(ma)
    IN IF IsNaN(ma) THEN 0
       ELSE IF 100 * above > 2 * Val(ma) /\ 10 * above < Val(ma) THEN 10
       ELSE IF 10 * above >= Val(ma) /\ 10 * above < 2 * Val(ma) THEN 5 ELSE 0

\* bonus 5: RSI strictly between 50 and 70
RsiBonus(df) ==
    LET rsi == Column(df, "RSI", NRows(df))
    IN IF IsNaN(rsi) THEN 0
       ELSE IF 50 * (Val(rsi).g + Val(rsi).l) < 100 * Val(rsi).g
               /\ 100 * Val(rsi).g < 70 * (Val(rsi).g + Val(rsi).l) THEN 5 ELSE 0

\* the streak over the last 4 of the last 8 weeks: a week above the mean volume
\* of the first 4 times the ratio (hundredths) adds one, any other week resets;
\* the count after week i of the 8
RECURSIVE StreakAfterNoReset(_, _, _, _)
StreakAfterNoReset(recent, avg, ratio, i) ==
    IF i < 5 THEN 0
    ELSE StreakAfterNoReset(recent, avg, ratio, i - 1)
         + (IF ~IsNaN(recent[i]) /\ ~IsNaN(avg)
               /\ 100 * Val(recent[i]) * Val(avg).d > Val(avg).n * ratio THEN 1 ELSE 0)
RECURSIVE StreakAfter(_, _, _, _)
StreakAfter(recent, avg, ratio, i) ==
    IF i < 5 THEN 0
    ELSE IF ~IsNaN(recent[i]) /\ ~IsNaN(avg)
            /\ 100 * Val(recent[i]) * Val(avg).d > Val(avg).n * ratio
         THEN StreakAfter(recent, avg, ratio, i - 1) + 1
         ELSE 0

\* bonus 6: consecutive volume expansion
ConsecutiveVolumeBonus(df, cv) ==
    IF cv.enabled /\ NRows(df) >= 8
    THEN LET recent == DfTail(df.volume, 8)
             avg == MeanOver(recent, 1..4)
             count == StreakAfter(recent, avg, cv.volume_increase_ratio, Len(recent))
         IN IF count >= cv.min_weeks
            THEN Min2((count - cv.min_weeks + 1) * 5, cv.max_bonus)
            ELSE 0
    ELSE 0

BonusScore(df, volume_analysis, params) ==
    SlopeBonus(df) + MacdBonus(df) + VolumeBonus(volume_analysis) + PositionBonus(df)
    + RsiBonus(df) + ConsecutiveVolumeBonus(df, params.consecutive_volume)

\* result['score'] = mandatory_score + bonus_score; line 402, which would cap the
\* score at 100, is commented out
CappedScore(mandatory_score, bonus_score) == Min2(mandatory_score + bonus_score, 100)
FinalScore(mandatory_score, bonus_score) == mandatory_score + bonus_score

KeyError == [raised |-> TRUE]

check_weekly_structure(weekly, params) ==
    IF NRows(weekly) < 40
    THEN [raised |-> FALSE, passed |-> FALSE, score |-> 0, gates |-> <<>>]
    ELSE LET df == calculate_all_indicators(weekly, "weekly")
             volume_analysis ==
                 analyze_volume_pattern(FrameTail(df, params.volume_lookback),
                                        params.volume_lookback)
         IN IF "volume_ratio" \notin volume_analysis.keys THEN KeyError
            ELSE LET gates == <<Ma40Gate(df, params), Ma40SlopeGate(df, params),
                                Ma10Gate(df, params), MacdGate(df, params),
                                VolumeGate(volume_analysis, params)>>
                     passed == \A i \in 1..5 : gates[i].ok
                     mandatory_score == gates[1].points + gates[2].points + gates[3].points
                                        + gates[4].points + gates[5].points
                 IN [raised |-> FALSE,
                     passed |-> passed,
                     score  |-> IF ~passed THEN 0
                                ELSE FinalScore(mandatory_score,
                                                BonusScore(df, volume_analysis, params)),
                     gates  |-> gates]

WeeklyParams ==
    [close_above_ma40 : BOOLEAN, ma40_slope_min : {0, 5}, close_above_ma10 : BOOLEAN,
     macd_positive_or_golden : BOOLEAN, macd_lookback : {3},
     volume_lookback : {8, 50}, volume_ratio_min : {120},
     consecutive_volume :
        {[enabled |-> FALSE, min_weeks |-> 2, volume_increase_ratio |-> 120, max_bonus |-> 15],
         [enabled |-> TRUE, min_weeks |-> 2, volume_increase_ratio |-> 120, max_bonus |-> 15]}]

WeeklyShapes ==
    [p0 : {20}, n1 : {33, 39, 44}, d1 : {0, 2}, n2 : {3}, d2 : {-1, 0, 1}, n3 : {3},
     d3 : {-2, 0, 2, 12}, vup : {16, 30}, vdown : {10, 20}, vflat : {10}, wick : {1},
     halt : {0, 3}]

InitWeekly ==
    /\ mode = "weekly"
    /\ pc = "start"
    /\ \E sh \in WeeklyShapes : weekly_df = Frame(sh)
    /\ config \in WeeklyParams
    /\ weekly_result = Idle
    /\ daily_df = Idle
    /\ StopIdle /\ ScoreIdle /\ IndIdle /\ MonthlyIdle /\ BreakoutIdle /\ RunIdle /\ ScanIdle

\* weekly_result = check_weekly_structure(weekly_df, config); the function works
\* on the copy calculate_all_indicators returns
CallWeekly ==
    /\ mode = "weekly" /\ pc = "start"
    /\ weekly_result' = check_weekly_structure(weekly_df, config)
    /\ weekly_df' = CallerFrame(weekly_df, calculate_all_indicators(weekly_df, "weekly"))
    /\ pc' = "done"
    /\ UNCHANGED <<mode, daily_df, config, stopVars, scoreVars, indVars,
                   monthlyVars, breakoutVars, runVars, scanVars>>

NextWeekly == CallWeekly

SpecWeekly == InitWeekly /\ [][NextWeekly]_vars

WeeklyDone == mode = "weekly" /\ pc = "done"

\* the frame and the volume analysis check_weekly_structure works on
WeeklyWorked == calculate_all_indicators(weekly_df, "weekly")
WeeklyVolumeAnalysis ==
    analyze_volume_pattern(FrameTail(WeeklyWorked, config.volume_lookback),
                           config.volume_lookback)

\* C3: check_weekly_structure returns a result for every series and every
\* configuration, and its score is 0 (equivalently passed is false) if and only
\* if a mandatory gate fails, a gate whose indicator is absent counting as
\* failing: fewer than 40 bars, an absent MA40, MA40 slope, MA10 or MACD
\* histogram, or an absent volume-cooperation ratio.
C3_ScoreZeroIffGateFails ==
    WeeklyDone =>
        /\ weekly_result.raised = FALSE
        /\ (weekly_result.passed = FALSE) <=> (weekly_result.score = 0)
        /\ (weekly_result.score = 0) <=>
               \/ NRows(weekly_df) < 40
               \/ \E i \in 1..5 : ~weekly_result.gates[i].ok
               \/ IsNaN(WeeklyVolumeAnalysis.volume_ratio)

\* the points of the gates the configuration applies
AppliedGatePoints ==
    (IF config.close_above_ma40 THEN 20 ELSE 0) + 15
    + (IF config.close_above_ma10 THEN 15 ELSE 0)
    + (IF config.macd_positive_or_golden THEN 20 ELSE 0) + 30

AllGatesEnabled ==
    config.close_above_ma40 /\ config.close_above_ma10 /\ config.macd_positive_or_golden

WeeklyPassed == WeeklyDone /\ weekly_result.raised = FALSE /\ weekly_result.passed

None == [none |-> TRUE]

\* std() / mean() of the last n closes below threshold (hundredths), with the
\* sample deviation: n (n S2 - S1^2) / ((n - 1) S1^2) < threshold^2
VolatilityBelow(df, n, threshold) ==
    LET c == DfTail(df.close, n)
        S1 == SeqSum(c)
        S2 == SeqSum([i \in 1..n |-> c[i] * c[i]])
    IN 10000 * n * (n * S2 - S1 * S1) < threshold * threshold * (n - 1) * S1 * S1

\* the four uptrend checks on the latest row: whether the code counts the check
\* (applies), whether its indicator has a value (present), and whether it holds
UptrendChecks(df, params) ==
    LET k == NRows(df)
        ma10 == Column(df, "MA10", k)
        slope == Column(df, "MA10_slope", k)
    IN << [applies |-> params.close_above_ma10 /\ "MA10" \in df.columns,
           present |-> ~IsNaN(ma10),
           ok      |-> ~IsNaN(ma10) /\ 10 * df.close[k] > Val(ma10)],
          [applies |-> "MA10_slope" \in df.columns,
           present |-> ~IsNaN(slope),
           ok      |-> ~IsNaN(slope)
                       /\ 1000 * Val(slope).num >= params.ma10_slope_min * Val(slope).den],
          [applies |-> params.ma_alignment_check,
           present |-> ~IsNaN(MA(df, 5, k)) /\ ~IsNaN(MA(df, 10, k)) /\ ~IsNaN(MA(df, 20, k)),
           ok      |-> check_ma_alignment(df, k)],
          [applies |-> k >= 6,
           present |-> TRUE,
           ok      |-> 100 * (df.close[k] - df.close[k - 6]) >= params.gain_6m_min * df.close[k - 6]] >>

\* lines 202-211: the windows tried are monthly_df.tail(lookback), the last
\* lookback closes; ConsolidatedAnywhere tries the windows ending at any row
ConsolidatedAnywhere(df, params) ==
    \E lookback \in params.consolidation_months_min .. params.consolidation_months_max :
        \E last \in lookback..NRows(df) :
            VolatilityBelow([close |-> SubSeq(df.close, 1, last)], lookback,
                            params.volatility_threshold)
Consolidated(df, params) ==
    \E lookback \in params.consolidation_months_min .. params.consolidation_months_max :
        NRows(df) >= lookback /\ VolatilityBelow(df, lookback, params.volatility_threshold)

\* the four base-building checks of a series of at least 24 rows; the slope
\* check is counted only when the slope has a value
BaseChecks(df, params) ==
    LET k == NRows(df)
        recent_24m == DfTail(df.close, 24)
        slope == Column(df, "MA10_slope", k)
        volume_analysis == analyze_volume_pattern(FrameTail(df, 6), 6)
    IN << [applies |-> TRUE,
           present |-> TRUE,
           ok      |-> 100 * (SeqMax(recent_24m) - SeqMin(recent_24m))
                       >= params.max_drawdown_24m * SeqMax(recent_24m)],
          [applies |-> TRUE,
           present |-> TRUE,
           ok      |-> Consolidated(df, params)],
          [applies |-> "MA10_slope" \in df.columns /\ ~IsNaN(slope),
           present |-> ~IsNaN(slope),
           ok      |-> ~IsNaN(slope)
                       /\ params.ma10_slope_min * Val(slope).den <= 1000 * Val(slope).num
                       /\ 1000 * Val(slope).num <= params.ma10_slope_max * Val(slope).den],
          [applies |-> params.volume_cooperation,
           present |-> ~IsNaN(volume_analysis.volume_ratio),
           ok      |-> volume_analysis.volume_cooperation] >>

Counted(checks) == {i \in DOMAIN checks : checks[i].applies}
Scored(checks) == {i \in DOMAIN checks : checks[i].applies /\ checks[i].ok}

\* checks > 0 and score / checks >= 0.75
PassesAtHalf(checks) ==
    Cardinality(Counted(checks)) > 0
    /\ 2 * Cardinality(Scored(checks)) >= Cardinality(Counted(checks))
Passes(checks) ==
    Cardinality(Counted(checks)) > 0
    /\ 4 * Cardinality(Scored(checks)) >= 3 * Cardinality(Counted(checks))

\* the order of the returns: UPTREND first, BASE_BUILDING only from 24 rows on
DecideBaseFirst(df, up, base) ==
    IF NRows(df) >= 24 /\ Passes(base) THEN "BASE_BUILDING"
    ELSE IF Passes(up) THEN "UPTREND"
    ELSE "DOWNTREND"
Decide(df, up, base) ==
    IF Passes(up) THEN "UPTREND"
    ELSE IF NRows(df) >= 24 /\ Passes(base) THEN "BASE_BUILDING"
    ELSE "DOWNTREND"

judge_monthly_trend(monthly, params) ==
    IF monthly = None THEN "DOWNTREND"
    ELSE IF NRows(monthly) < 12 THEN "DOWNTREND"
    ELSE LET df == calculate_all_indicators(monthly, "monthly")
         IN Decide(df, UptrendChecks(df, params.uptrend),
                   IF NRows(df) >= 24 THEN BaseChecks(df, params.base_building) ELSE <<>>)

\* the frame the caller holds after judge_monthly_trend returns
MonthlyCallerFrame(monthly) ==
    IF monthly = None THEN monthly
    ELSE IF NRows(monthly) < 12 THEN monthly
    ELSE CallerFrame(monthly, calculate_all_indicators(monthly, "monthly"))

MonthlyParams ==
    [uptrend : [close_above_ma10 : BOOLEAN, ma10_slope_min : {0},
                ma_alignment_check : BOOLEAN, gain_6m_min : {0, 10}],
     base_building : [max_drawdown_24m : {40}, consolidation_months_min : {4},
                      consolidation_months_max : {6}, volatility_threshold : {2, 15},
                      ma10_slope_min : {-20, -5}, ma10_slope_max : {20},
                      volume_cooperation : BOOLEAN]]

MonthlyShapes ==
    [p0 : {200}, n1 : {1, 3, 7, 11, 14, 16}, d1 : {-6, 0, 1}, n2 : {4}, d2 : {-1, 0, 2},
     n3 : {6}, d3 : {-1, 0, 1}, vup : {16, 30}, vdown : {20}, vflat : {10}, wick : {1},
     halt : {0}]

MaxCalls == 3

InitMonthly ==
    /\ mode = "monthly"
    /\ pc = "start"
    /\ monthly_df \in {Frame(sh) : sh \in MonthlyShapes} \cup {None}
    /\ config \in MonthlyParams
    /\ monthly_label = Idle
    /\ first_label = Idle
    /\ calls = 0
    /\ daily_df = Idle
    /\ StopIdle /\ ScoreIdle /\ IndIdle /\ WeeklyIdle /\ BreakoutIdle /\ RunIdle /\ ScanIdle

\* one more call of judge_monthly_trend on the series and the configuration
CallMonthly ==
    /\ mode = "monthly" /\ calls < MaxCalls
    /\ monthly_label' = judge_monthly_trend(monthly_df, config)
    /\ first_label' = IF calls = 0 THEN judge_monthly_trend(monthly_df, config) ELSE first_label
    /\ monthly_df' = MonthlyCallerFrame(monthly_df)
    /\ calls' = calls + 1
    /\ pc' = "done"
    /\ UNCHANGED <<mode, daily_df, config, stopVars, scoreVars, indVars,
                   weeklyVars, breakoutVars, runVars, scanVars>>

NextMonthly == CallMonthly

SpecMonthly == InitMonthly /\ [][NextMonthly]_vars

MonthlyCalled == mode = "monthly" /\ calls > 0

\* the checks of the two sets on the caller's series, as the function sees them
MonthlyUp == UptrendChecks(calculate_all_indicators(monthly_df, "monthly"), config.uptrend)
MonthlyBase == BaseChecks(calculate_all_indicators(monthly_df, "monthly"), config.base_building)

\* a pass fraction of at least 0.75 over the checks whose indicators are present
PassesOverPresent(checks) ==
    LET counted == {i \in DOMAIN checks : checks[i].applies /\ checks[i].present}
        scored == {i \in counted : checks[i].ok}
    IN Cardinality(counted) > 0 /\ 4 * Cardinality(scored) >= 3 * Cardinality(counted)

\* C6: the pass fraction that decides UPTREND, and likewise BASE_BUILDING, is
\* taken over the checks whose indicators are present only; a check whose
\* indicator is absent at the latest bar (MA20 on a 12- to 19-bar series, an
\* absent MA10 slope) is left out of the denominator, not counted as failed.
C6_FractionOverPresentChecks ==
    (MonthlyCalled /\ monthly_df # None) =>
        (NRows(monthly_df) >= 12 =>
            monthly_label =
                IF PassesOverPresent(MonthlyUp) THEN "UPTREND"
                ELSE IF NRows(monthly_df) >= 24 /\ PassesOverPresent(MonthlyBase)
                     THEN "BASE_BUILDING"
                ELSE "DOWNTREND")

\* C7: the label is one of UPTREND, BASE_BUILDING, DOWNTREND, decided in order:
\* a missing series or one of fewer than 12 bars is DOWNTREND; else UPTREND when
\* the uptrend fraction is at least 0.75; else BASE_BUILDING only with at least
\* 24 bars and a base-building fraction of at least 0.75; else DOWNTREND.
C7_LabelDecisionOrder ==
    MonthlyCalled =>
        /\ monthly_label \in {"UPTREND", "BASE_BUILDING", "DOWNTREND"}
        /\ IF monthly_df = None THEN monthly_label = "DOWNTREND"
           ELSE IF NRows(monthly_df) < 12 THEN monthly_label = "DOWNTREND"
           ELSE IF Passes(MonthlyUp) THEN monthly_label = "UPTREND"
           ELSE IF NRows(monthly_df) >= 24 /\ Passes(MonthlyBase)
                THEN monthly_label = "BASE_BUILDING"
           ELSE monthly_label = "DOWNTREND"

\* a series of at least 24 bars that satisfies both check sets and is UPTREND
C7_Witness ==
    /\ MonthlyCalled /\ monthly_df # None
    /\ NRows(monthly_df) >= 24
    /\ Passes(MonthlyUp) /\ Passes(MonthlyBase)
    /\ monthly_label = "UPTREND"

C9Scenario ==
    /\ MonthlyCalled /\ monthly_df # None
    /\ NRows(monthly_df) = 24
    /\ 100 * (SeqMax(DfTail(monthly_df.close, 6)) - SeqMin(DfTail(monthly_df.close, 6)))
           <= 5 * SeqMin(DfTail(monthly_df.close, 6))
    /\ 100 * (SeqMax(monthly_df.close) - SeqMin(monthly_df.close))
           >= 40 * SeqMax(monthly_df.close)
    /\ MonthlyBase[1].ok /\ MonthlyBase[2].ok

\* C9 as stated: such a series is BASE_BUILDING whatever the outcome of the
\* MA10-slope-band and volume-cooperation checks.
C9_FlatAfterDrawdownIsBaseBuilding ==
    C9Scenario => monthly_label = "BASE_BUILDING"

\* C9 amended: such a series is UPTREND when the uptrend fraction reaches 0.75;
\* otherwise it is BASE_BUILDING exactly when the MA10 slope is inside the band
\* or, with volume_cooperation enabled, the volume-cooperation check passes;
\* otherwise it is DOWNTREND.
C9_FlatAfterDrawdownNeedsThirdCheck ==
    C9Scenario =>
        monthly_label =
            IF Passes(MonthlyUp) THEN "UPTREND"
            ELSE IF MonthlyBase[3].ok
                    \/ (config.base_building.volume_cooperation /\ MonthlyBase[4].ok)
                 THEN "BASE_BUILDING"
            ELSE "DOWNTREND"

\* the scenario labelled BASE_BUILDING on the strength of the volume check, the
\* slope being outside the band
C9_Witness ==
    /\ C9Scenario
    /\ monthly_label = "BASE_BUILDING"
    /\ ~MonthlyBase[3].ok /\ MonthlyBase[4].ok

(***************************************************************************)
(* detect_breakout_trigger (daily_scan.py)                                 *)
(***************************************************************************)
\* a close above the pivot whose previous close is not, in the last 3 sessions
\* (the frame has at least 20 rows here)
BreakthroughLatestOnly(df, pivot) ==
    df.close[NRows(df)] > pivot /\ df.close[NRows(df) - 1] <= pivot
Breakthrough(df, pivot) ==
    \E j \in (NRows(df) - 2)..NRows(df) :
        df.close[j] > pivot /\ df.close[j - 1] <= pivot

\* the volume check: made only when the latest row has a volume ratio
VolumeTooLow(df, params) ==
    LET vr == Column(df, "volume_ratio", NRows(df))
    IN ~IsNaN(vr) /\ 100 * 20 * Val(vr).v < params.volume_ratio_min * Val(vr).sum

\* latest RSI above the threshold; an absent RSI adds nothing
RsiConfirms(df, params) ==
    LET rsi == Column(df, "RSI", NRows(df))
    IN ~IsNaN(rsi) /\ 100 * Val(rsi).g > params.rsi_threshold * (Val(rsi).g + Val(rsi).l)

\* latest close not below the highest high of the last new_high_days sessions
NewHigh(df, params) ==
    df.close[NRows(df)] >= SeqMax(DfTail(df.high, params.new_high_days))

signal_strength(df, params) ==
    (IF RsiConfirms(df, params) THEN 1 ELSE 0) + (IF NewHigh(df, params) THEN 1 ELSE 0)

\* the signal dictionary, or None
detect_breakout_trigger(df, pivot, params) ==
    IF NRows(df) < 20 THEN None
    ELSE IF df.close[NRows(df)] <= pivot THEN None
    ELSE IF ~Breakthrough(df, pivot) THEN None
    ELSE IF VolumeTooLow(df, params) THEN None
    ELSE IF signal_strength(df, params) = 0 THEN None
    ELSE [trigger_type    |-> "BREAKOUT",
          signal_strength |-> signal_strength(df, params),
          volume_ratio    |-> Column(df, "volume_ratio", NRows(df)),
          rsi             |-> Column(df, "RSI", NRows(df))]

BreakoutParams == [volume_ratio_min : {150}, rsi_threshold : {60}, new_high_days : {20}]

DailyShapes ==
    [p0 : {20}, n1 : {12, 16, 24, 55}, d1 : {0, 1}, n2 : {3}, d2 : {-1, 1}, n3 : {3},
     d3 : {-1, 1, 2}, vup : {10, 30}, vdown : {10}, vflat : {10}, wick : {0, 1},
     halt : {0, 1}]

\* the pivot, as an offset from the latest close
PivotOffsets == {-4, -2, -1, 0, 1}

\* process_single_stock computes the indicators of the daily frame before it
\* looks for a trigger
InitBreakout ==
    /\ mode = "breakout"
    /\ pc = "start"
    /\ \E sh \in DailyShapes :
          /\ daily_df = calculate_all_indicators(Frame(sh), "daily")
          /\ \E off \in PivotOffsets : weekly_pivot = ShapeClose(sh, ShapeLen(sh)) + off
    /\ config \in BreakoutParams
    /\ breakout_signal = Idle
    /\ StopIdle /\ ScoreIdle /\ IndIdle /\ WeeklyIdle /\ MonthlyIdle /\ RunIdle /\ ScanIdle

CallBreakout ==
    /\ mode = "breakout" /\ pc = "start"
    /\ breakout_signal' = detect_breakout_trigger(daily_df, weekly_pivot, config)
    /\ pc' = "done"
    /\ UNCHANGED <<mode, daily_df, config, weekly_pivot, stopVars, scoreVars, indVars,
                   weeklyVars, monthlyVars, runVars, scanVars>>

NextBreakout == CallBreakout

SpecBreakout == InitBreakout /\ [][NextBreakout]_vars

BreakoutDone == mode = "breakout" /\ pc = "done"

\* the conditions on the frame the function was given, and on the pivot
LatestVolumeRatio == Column(daily_df, "volume_ratio", NRows(daily_df))
CrossedInLastThree ==
    \E j \in (NRows(daily_df) - 2)..NRows(daily_df) :
        daily_df.close[j] > weekly_pivot /\ daily_df.close[j - 1] <= weekly_pivot
SecondaryCount ==
    (IF RsiConfirms(daily_df, config) THEN 1 ELSE 0)
    + (IF NewHigh(daily_df, config) THEN 1 ELSE 0)

\* C10 as stated: a BREAKOUT signal is returned exactly when the latest close is
\* above the pivot, a crossing occurred within the last 3 sessions, the volume
\* ratio is at least volume_ratio_min, and the RSI is above its threshold or the
\* close is the N-day high; the strength is the number of those two that hold.
C10_BreakoutExactlyWhen ==
    BreakoutDone =>
        /\ (breakout_signal # None) <=>
              /\ daily_df.close[NRows(daily_df)] > weekly_pivot
              /\ CrossedInLastThree
              /\ ~IsNaN(LatestVolumeRatio)
              /\ 100 * 20 * Val(LatestVolumeRatio).v
                     >= config.volume_ratio_min * Val(LatestVolumeRatio).sum
              /\ SecondaryCount >= 1
        /\ breakout_signal # None =>
              /\ breakout_signal.trigger_type = "BREAKOUT"
              /\ breakout_signal.signal_strength = SecondaryCount

\* C10 amended: on a series of at least 20 sessions a BREAKOUT signal is
\* returned exactly when the latest close is above the pivot, a crossing
\* occurred within the last 3 sessions, the latest volume ratio is absent or at
\* least volume_ratio_min, and the RSI is above its threshold or the close is
\* not below the highest high of the last new_high_days sessions; the strength
\* is the number of those two that hold, 1 or 2.  A shorter series gets none.
C10_BreakoutExactlyWhenVolumeAbsentOrEnough ==
    BreakoutDone =>
        /\ (breakout_signal # None) <=>
              /\ NRows(daily_df) >= 20
              /\ daily_df.close[NRows(daily_df)] > weekly_pivot
              /\ CrossedInLastThree
              /\ \/ IsNaN(LatestVolumeRatio)
                 \/ 100 * 20 * Val(LatestVolumeRatio).v
                        >= config.volume_ratio_min * Val(LatestVolumeRatio).sum
              /\ SecondaryCount >= 1
        /\ breakout_signal # None =>
              /\ breakout_signal.trigger_type = "BREAKOUT"
              /\ breakout_signal.signal_strength = SecondaryCount
              /\ breakout_signal.signal_strength \in {1, 2}

\* the crossing happened before the latest session, the volume ratio is at
\* least 2.0, the RSI is above the threshold: a BREAKOUT signal
C10_Witness ==
    /\ BreakoutDone
    /\ daily_df.close[NRows(daily_df) - 1] > weekly_pivot
    /\ CrossedInLastThree
    /\ ~IsNaN(LatestVolumeRatio)
    /\ 20 * Val(LatestVolumeRatio).v >= 2 * Val(LatestVolumeRatio).sum
    /\ RsiConfirms(daily_df, config)
    /\ breakout_signal # None
    /\ breakout_signal.trigger_type = "BREAKOUT"
    /\ breakout_signal.signal_strength >= 1

(***************************************************************************)
(* detect_pullback_trigger and the daily process_single_stock              *)
(* (daily_scan.py)                                                         *)
(***************************************************************************)
\* the rows of the frame the support loop visits: range(max(1, len(recent) - 5),
\* len(recent)) over recent = df.tail(lookback_days)
SupportRows(df, params) ==
    LET n == Min2(NRows(df), params.lookback_days)
    IN (NRows(df) - n + 1 + Max2(1, n - 5))..NRows(df)

\* a low within 2% of the moving average of the period, on one of those rows
TouchesMa(df, period, params) ==
    MaName(period) \in df.columns
    /\ \E j \in SupportRows(df, params) :
          /\ ~IsNaN(MA(df, period, j))
          /\ 100 * Abs(period * df.low[j] - Val(MA(df, period, j))) < 2 * Val(MA(df, period, j))

\* pullback_avg_volume > overall_avg_volume * volume_shrink_ratio (hundredths);
\* a comparison with an absent mean is False
VolumeNotShrunk(df, params) ==
    LET n == NRows(df)
        pullback == MeanOver(df.volume, (n - 4)..n)
        overall == MeanOver(df.volume, (n - Min2(n, params.lookback_days) + 1)..n)
    IN ~IsNaN(pullback) /\ ~IsNaN(overall)
       /\ 100 * Val(pullback).n * Val(overall).d
              > params.volume_shrink_ratio * Val(overall).n * Val(pullback).d

\* the recovery volume check: made only when the latest row has a volume ratio
RecoveryVolumeTooLow(df, params) ==
    LET vr == Column(df, "volume_ratio", NRows(df))
    IN ~IsNaN(vr) /\ 100 * 20 * Val(vr).v < params.recovery_volume_ratio * Val(vr).sum

\* (max high - min low) / max high of the window above max_drawback_pct (hundredths)
DrawdownTooDeep(df, params) ==
    LET max_price == SeqMax(DfTail(df.high, params.lookback_days))
        min_price == SeqMin(DfTail(df.low, params.lookback_days))
    IN 100 * (max_price - min_price) > params.max_drawback_pct * max_price

\* 1, plus 1 when the close is above the highs of the 4 sessions before
PullbackStrengthFiveDays(df) ==
    1 + (IF df.close[NRows(df)] > SeqMax(DfTail(df.high, 5)) THEN 1 ELSE 0)
PullbackStrength(df) ==
    1 + (IF df.close[NRows(df)] > SeqMax(SubSeq(df.high, NRows(df) - 4, NRows(df) - 1))
         THEN 1 ELSE 0)

\* the signal dictionary, or None
detect_pullback_trigger(df, params) ==
    IF NRows(df) < params.lookback_days + 5 THEN None
    ELSE IF ~\E i \in DOMAIN params.ma_support : TouchesMa(df, params.ma_support[i], params)
         THEN None
    ELSE IF VolumeNotShrunk(df, params) THEN None
    ELSE IF df.close[NRows(df)] <= df.open[NRows(df)] THEN None
    ELSE IF RecoveryVolumeTooLow(df, params) THEN None
    ELSE IF DrawdownTooDeep(df, params) THEN None
    ELSE [trigger_type    |-> "PULLBACK",
          signal_strength |-> PullbackStrength(df),
          support_ma      |-> params.ma_support[
                                  CHOOSE i \in DOMAIN params.ma_support :
                                      /\ TouchesMa(df, params.ma_support[i], params)
                                      /\ \A h \in 1..(i - 1) :
                                             ~TouchesMa(df, params.ma_support[h], params)],
          volume_ratio    |-> Column(df, "volume_ratio", NRows(df))]

DailyParams ==
    [breakout : [volume_ratio_min : {150}, rsi_threshold : {30, 60}, new_high_days : {20}],
     pullback : [lookback_days : {20}, ma_support : {<<10, 20>>},
                 volume_shrink_ratio : {80}, recovery_volume_ratio : {120},
                 max_drawback_pct : {15}]]

PullbackShapes ==
    [p0 : {20}, n1 : {20, 56}, d1 : {1}, n2 : {3, 8}, d2 : {-1, 0}, n3 : {1, 3},
     d3 : {-1, 1, 5}, vup : {30}, vdown : {5, 30}, vflat : {10}, wick : {0, 1},
     halt : {0, 1}]

\* a detector that has not been run
NotRun == [not_run |-> TRUE]

\* process_single_stock has loaded the daily frame and computed its indicators
InitDaily ==
    /\ mode = "daily"
    /\ pc = "start"
    /\ \E sh \in PullbackShapes :
          /\ daily_df = calculate_all_indicators(Frame(sh), "daily")
          /\ \E off \in PivotOffsets : weekly_pivot = ShapeClose(sh, ShapeLen(sh)) + off
    /\ config \in DailyParams
    /\ breakout_signal = NotRun /\ pullback_signal = NotRun /\ signal = NotRun
    /\ daily_file = Idle /\ prefilter = Idle /\ ScanIdle
    /\ StopIdle /\ ScoreIdle /\ IndIdle /\ WeeklyIdle /\ MonthlyIdle

\* fewer than 60 sessions: no signal, neither detector is run
TooShort ==
    /\ mode = "daily" /\ pc = "start"
    /\ NRows(daily_df) < 60
    /\ signal' = None
    /\ pc' = "done"
    /\ UNCHANGED <<mode, daily_df, config, stopVars, scoreVars, indVars, weeklyVars,
                   monthlyVars, breakoutVars, pullback_signal, daily_file, prefilter,
                   scanVars>>

\* the breakout detector is run first
DetectBreakout ==
    /\ mode = "daily" /\ pc = "start"
    /\ NRows(daily_df) >= 60
    /\ breakout_signal' = detect_breakout_trigger(daily_df, weekly_pivot, config.breakout)
    /\ pc' = "breakout_checked"
    /\ UNCHANGED <<mode, daily_df, config, weekly_pivot, stopVars, scoreVars, indVars,
                   weeklyVars, monthlyVars, runVars, scanVars>>

\* a breakout signal is the signal; the pullback detector is not run
KeepBreakout ==
    /\ mode = "daily" /\ pc = "breakout_checked"
    /\ breakout_signal # None
    /\ signal' = breakout_signal
    /\ pc' = "done"
    /\ UNCHANGED <<mode, daily_df, config, stopVars, scoreVars, indVars, weeklyVars,
                   monthlyVars, breakoutVars, pullback_signal, daily_file, prefilter,
                   scanVars>>

\* without a breakout signal the pullback detector is run, and its result is
\* the signal
DetectPullback ==
    /\ mode = "daily" /\ pc = "breakout_checked"
    /\ breakout_signal = None
    /\ pullback_signal' = detect_pullback_trigger(daily_df, config.pullback)
    /\ signal' = detect_pullback_trigger(daily_df, config.pullback)
    /\ pc' = "done"
    /\ UNCHANGED <<mode, daily_df, config, stopVars, scoreVars, indVars, weeklyVars,
                   monthlyVars, breakoutVars, daily_file, prefilter,
                   scanVars>>

NextDaily == TooShort \/ DetectBreakout \/ KeepBreakout \/ DetectPullback

SpecDaily == InitDaily /\ [][NextDaily]_vars

DailyDone == mode = "daily" /\ pc = "done"

IsPullback == DailyDone /\ signal # None /\ signal.trigger_type = "PULLBACK"

\* the pullback conditions other than the recovery volume, on the daily frame
PullbackConditions ==
    LET n == NRows(daily_df)
        p == config.pullback
        pullback == MeanOver(daily_df.volume, (n - 4)..n)
        overall == MeanOver(daily_df.volume, (n - p.lookback_days + 1)..n)
    IN /\ \E i \in DOMAIN p.ma_support : \E j \in (n - 4)..n :
              /\ ~IsNaN(MA(daily_df, p.ma_support[i], j))
              /\ 100 * Abs(p.ma_support[i] * daily_df.low[j] - Val(MA(daily_df, p.ma_support[i], j)))
                     < 2 * Val(MA(daily_df, p.ma_support[i], j))
       /\ 100 * Val(pullback).n * Val(overall).d
              <= p.volume_shrink_ratio * Val(overall).n * Val(pullback).d
       /\ daily_df.close[n] > daily_df.open[n]
       /\ 100 * (SeqMax(DfTail(daily_df.high, p.lookback_days))
                 - SeqMin(DfTail(daily_df.low, p.lookback_days)))
              <= p.max_drawback_pct * SeqMax(DfTail(daily_df.high, p.lookback_days))
       /\ signal.signal_strength =
              1 + (IF \A j \in (n - 4)..(n - 1) : daily_df.close[n] > daily_df.high[j]
                   THEN 1 ELSE 0)

\* a detected breakout is the signal, and the pullback detector ran only
\* without one
BreakoutFirst ==
    /\ (DailyDone /\ breakout_signal \notin {NotRun, None}) => signal = breakout_signal
    /\ (mode = "daily" /\ pullback_signal # NotRun) => breakout_signal = None

DailyFile(f) ==
    [rows        |-> f.rows,
     columns     |-> {"date", "close"} \cup (IF f.st # "none" THEN {"isST"} ELSE {})
                     \cup (IF f.has_status THEN {"tradestatus"} ELSE {})
                     \cup (IF f.has_amount THEN {"amount"} ELSE {}),
     isST        |-> [k \in 1..f.rows |-> IF k = f.rows THEN f.st
                                          ELSE IF k = 1 /\ f.st_note THEN "*ST" ELSE "0"],
     tradestatus |-> [k \in 1..f.rows |-> IF k > f.rows - f.suspended THEN "0" ELSE "1"],
     amount      |-> [k \in 1..f.rows |-> f.amount],
     amount_first |-> IF f.amount_note THEN "--" ELSE "number",
     amount_dtype |-> "text",
     close       |-> [k \in 1..f.rows |-> f.close]]

\* the type pd.read_csv infers for a column of cells
ReadCsvColumn(cells) ==
    [dtype |-> IF \A k \in DOMAIN cells : cells[k] \in {"0", "1"} THEN "int64" ELSE "object",
     cells |-> cells]

\* load_kline_data: None for a missing or empty file, else the parsed frame
load_kline_data(file) ==
    IF file = None THEN None
    ELSE IF file.rows = 0 THEN None
    ELSE [file EXCEPT !.isST = ReadCsvColumn(@), !.tradestatus = ReadCsvColumn(@),
                      !.amount_dtype = IF file.amount_first = "--" THEN "object" ELSE "int64"]

\* column[k] == text, for a string text: an int64 cell never equals a string
EqualsText(column, k, text) == column.dtype = "object" /\ column.cells[k] = text

\* pre_filter_stock: (passed, reason)
pre_filter_stock(df, params) ==
    IF params.exclude_st /\ "isST" \in df.columns /\ EqualsText(df.isST, df.rows, "1")
    THEN [passed |-> FALSE, reason |-> "ST"]
    ELSE IF df.rows < 60 THEN [passed |-> FALSE, reason |-> "short"]
    ELSE IF "tradestatus" \in df.columns
            /\ Cardinality({k \in (df.rows - 4)..df.rows : EqualsText(df.tradestatus, k, "0")})
                   > params.max_suspend_days_5d
         THEN [passed |-> FALSE, reason |-> "suspended"]
    ELSE IF "amount" \in df.columns
            /\ SumRange(df.amount, df.rows - 19, df.rows) < 20 * params.min_avg_amount_20d
         THEN [passed |-> FALSE, reason |-> "amount"]
    ELSE [passed |-> TRUE, reason |-> ""]

\* line 127: daily_df['amount'] = pd.to_numeric(daily_df['amount'], errors='coerce')
\* is an assignment to the frame of the caller, reached when none of the earlier
\* checks returned; a column of strings becomes a column of numbers, and a cell
\* that is no number becomes NaN
PreFilterCallerFrame(df, params) ==
    IF "amount" \in df.columns /\ pre_filter_stock(df, params).reason \in {"amount", ""}
    THEN [df EXCEPT !.amount_dtype = IF @ = "object" THEN "float64" ELSE @,
                    !.amount_first = IF @ = "--" THEN "NaN" ELSE @]
    ELSE df

PreFilterParams == [exclude_st : BOOLEAN, max_suspend_days_5d : {2}, min_avg_amount_20d : {10}]

DailyFiles ==
    [rows : {59, 60, 61}, st : {"none", "0", "1"}, st_note : BOOLEAN, has_status : BOOLEAN,
     suspended : {0, 2, 3}, has_amount : BOOLEAN, amount : {5, 20}, amount_note : BOOLEAN,
     close : {20}]

InitPreFilter ==
    /\ mode = "pre_filter"
    /\ pc = "start"
    /\ \E f \in DailyFiles : daily_file = DailyFile(f)
    /\ config \in PreFilterParams
    /\ daily_df = Idle /\ prefilter = Idle
    /\ pullback_signal = Idle /\ signal = Idle /\ ScanIdle
    /\ StopIdle /\ ScoreIdle /\ IndIdle /\ WeeklyIdle /\ MonthlyIdle /\ BreakoutIdle

LoadDaily ==
    /\ mode = "pre_filter" /\ pc = "start"
    /\ daily_df' = load_kline_data(daily_file)
    /\ pc' = "loaded"
    /\ UNCHANGED <<mode, config, stopVars, scoreVars, indVars, weeklyVars, monthlyVars,
                   breakoutVars, runVars, scanVars>>

CallPreFilter ==
    /\ mode = "pre_filter" /\ pc = "loaded"
    /\ prefilter' = pre_filter_stock(daily_df, config)
    /\ daily_df' = PreFilterCallerFrame(daily_df, config)
    /\ pc' = "done"
    /\ UNCHANGED <<mode, config, stopVars, scoreVars, indVars, weeklyVars,
                   monthlyVars, breakoutVars, pullback_signal, signal, daily_file,
                   scanVars>>

NextPreFilter == LoadDaily \/ CallPreFilter

SpecPreFilter == InitPreFilter /\ [][NextPreFilter]_vars

\* C12: for a series loaded by load_kline_data, pre_filter_stock rejects the
\* instrument whenever exclude_st is configured and the latest bar is ST-flagged,
\* or there are fewer than 60 daily bars, or more than max_suspend_days_5d of
\* the last 5 sessions are suspended, or the 20-day average amount is below
\* min_avg_amount_20d; it accepts the instrument otherwise.
C12_RejectsExactlyWhen ==
    (mode = "pre_filter" /\ pc = "done") =>
        (prefilter.passed = FALSE) <=>
            \/ config.exclude_st /\ "isST" \in daily_file.columns
               /\ daily_file.isST[daily_file.rows] = "1"
            \/ daily_file.rows < 60
            \/ "tradestatus" \in daily_file.columns
               /\ Cardinality({k \in (daily_file.rows - 4)..daily_file.rows :
                                  daily_file.tradestatus[k] = "0"})
                      > config.max_suspend_days_5d
            \/ "amount" \in daily_file.columns
               /\ SumRange(daily_file.amount, daily_file.rows - 19, daily_file.rows)
                      < 20 * config.min_avg_amount_20d

(***************************************************************************)
(* weekly_scan.process_single_stock: load, pre-filter, monthly label,      *)
(* weekly scorer, row.  The position pc records the stage reached.         *)
(***************************************************************************)
FunnelConfigs ==
    [pre_filter : {q \in PreFilterParams : q.exclude_st},
     monthly : {q \in MonthlyParams :
                         q.uptrend.close_above_ma10 /\ q.uptrend.ma_alignment_check
                         /\ q.uptrend.gain_6m_min = 0
                         /\ q.base_building.volatility_threshold = 15
                         /\ q.base_building.ma10_slope_min = -20
                         /\ q.base_building.volume_cooperation},
     weekly : [mandatory : {q \in WeeklyParams :
                                q.close_above_ma40 /\ q.close_above_ma10
                                /\ q.macd_positive_or_golden /\ q.ma40_slope_min = 0
                                /\ q.consecutive_volume.enabled}]]

FunnelDailyFiles ==
    {f \in DailyFiles : f.st # "none" /\ f.rows < 61 /\ f.has_status /\ f.suspended = 0
                        /\ f.has_amount /\ ~f.amount_note}
FunnelWeeklyShapes ==
    {sh \in WeeklyShapes : sh.n1 < 44 /\ sh.d1 = 0 /\ sh.d2 # 0 /\ sh.d3 \in {0, 12}
                           /\ sh.vup = 16 /\ sh.vdown = 10}
FunnelMonthlyShapes ==
    {sh \in MonthlyShapes : sh.n1 = 14 /\ sh.d1 < 1 /\ sh.d2 # 0 /\ sh.d3 > -1 /\ sh.vup = 30}

\* 'ma40_weekly': float(latest_weekly.get('MA40', 0)) if 'MA40' in latest_weekly
\* else 0, read from the frame the caller holds; a mean is kept as (sum, n)
Ma40Field(df) ==
    IF MaName(40) \in df.columns /\ ~IsNaN(MA(df, 40, NRows(df)))
    THEN [sum |-> Val(MA(df, 40, NRows(df))), n |-> 40]
    ELSE [sum |-> 0, n |-> 1]

\* the row process_single_stock returns
ResultRow(daily, weekly, label, scored) ==
    [monthly_trend |-> label,
     weekly_score  |-> scored.score,
     current_price |-> daily.close[daily.rows],
     ma40_weekly   |-> Ma40Field(weekly)]

InitFunnel ==
    /\ mode = "funnel"
    /\ pc = "start"
    /\ daily_file \in {DailyFile(f) : f \in FunnelDailyFiles} \cup {None}
    /\ weekly_df \in {Frame(sh) : sh \in FunnelWeeklyShapes} \cup {None}
    /\ monthly_df \in {Frame(sh) : sh \in FunnelMonthlyShapes} \cup {None}
    /\ config \in FunnelConfigs
    /\ daily_df = NotRun /\ prefilter = NotRun /\ weekly_result = NotRun /\ result = NotRun
    /\ monthly_label = "NOT_RUN"
    /\ first_label = Idle /\ calls = 0
    /\ pullback_signal = Idle /\ signal = Idle
    /\ stock_dirs = Idle /\ position = 0 /\ results = <<>> /\ skipped = Idle
    /\ visited = Idle /\ stage_config = Idle /\ signals = <<>>
    /\ watchlist_file = Idle /\ signals_file = Idle /\ ranked = Idle /\ exit_code = 0
    /\ StopIdle /\ ScoreIdle /\ IndIdle /\ BreakoutIdle

\* lines 415-420: the three series; None when one of them is missing
LoadSeries ==
    /\ mode = "funnel" /\ pc = "start"
    /\ daily_df' = load_kline_data(daily_file)
    /\ IF load_kline_data(daily_file) = None \/ weekly_df = None \/ monthly_df = None
       THEN result' = None /\ pc' = "done"
       ELSE result' = result /\ pc' = "loaded"
    /\ UNCHANGED <<mode, config, stopVars, scoreVars, indVars, weeklyVars, monthlyVars,
                   breakoutVars, runVars, loopVars>>

\* lines 424-425: a rejected instrument is dropped at once
AfterPreFilterAlways(passed) == "filtered"
AfterPreFilter(passed) == IF passed THEN "filtered" ELSE "done"

\* lines 423-425
PreFilter ==
    /\ mode = "funnel" /\ pc = "loaded"
    /\ prefilter' = pre_filter_stock(daily_df, config.pre_filter)
    /\ pc' = AfterPreFilter(pre_filter_stock(daily_df, config.pre_filter).passed)
    /\ result' = IF pre_filter_stock(daily_df, config.pre_filter).passed THEN result ELSE None
    /\ daily_df' = PreFilterCallerFrame(daily_df, config.pre_filter)
    /\ UNCHANGED <<mode, config, stopVars, scoreVars, indVars, weeklyVars,
                   monthlyVars, breakoutVars, pullback_signal, signal, daily_file,
                   loopVars>>

\* lines 428-430
JudgeMonthly ==
    /\ mode = "funnel" /\ pc = "filtered"
    /\ monthly_label' = judge_monthly_trend(monthly_df, config.monthly)
    /\ monthly_df' = MonthlyCallerFrame(monthly_df)
    /\ IF judge_monthly_trend(monthly_df, config.monthly) = "DOWNTREND"
       THEN result' = None /\ pc' = "done"
       ELSE result' = result /\ pc' = "classified"
    /\ UNCHANGED <<mode, daily_df, config, stopVars, scoreVars, indVars, weeklyVars,
                   first_label, calls, breakoutVars, runVars, loopVars>>

\* lines 433-454: an exception of the scorer leaves the function; a series that
\* passed gives the row
CheckWeekly ==
    /\ mode = "funnel" /\ pc = "classified"
    /\ LET scored == check_weekly_structure(weekly_df, config.weekly.mandatory)
           held == CallerFrame(weekly_df, calculate_all_indicators(weekly_df, "weekly"))
       IN /\ weekly_result' = scored
          /\ weekly_df' = IF NRows(weekly_df) < 40 THEN weekly_df ELSE held
          /\ result' = IF scored.raised THEN KeyError
                       ELSE IF ~scored.passed THEN None
                       ELSE ResultRow(daily_df, IF NRows(weekly_df) < 40 THEN weekly_df ELSE held,
                                      monthly_label, scored)
    /\ pc' = "done"
    /\ UNCHANGED <<mode, daily_df, config, stopVars, scoreVars, indVars, monthlyVars,
                   breakoutVars, runVars, loopVars>>

NextFunnel == LoadSeries \/ PreFilter \/ JudgeMonthly \/ CheckWeekly

SpecFunnel == InitFunnel /\ [][NextFunnel]_vars

HasRow == mode = "funnel" /\ pc = "done" /\ result # None /\ result # KeyError

\* C13: the funnel is staged.  A row exists only when the pre-filter passed,
\* then the monthly label was UPTREND or BASE_BUILDING, then the weekly scorer
\* passed; the classifier is never evaluated after a pre-filter rejection, the
\* scorer never after a DOWNTREND label or a rejection; a row carries a
\* non-DOWNTREND label and a score above 0.
C13_FunnelStaged ==
    mode = "funnel" =>
        /\ (prefilter = NotRun \/ ~prefilter.passed) =>
               monthly_label = "NOT_RUN" /\ weekly_result = NotRun
        /\ monthly_label \in {"NOT_RUN", "DOWNTREND"} => weekly_result = NotRun
        /\ HasRow =>
               /\ prefilter # NotRun /\ prefilter.passed
               /\ monthly_label \in {"UPTREND", "BASE_BUILDING"}
               /\ weekly_result # NotRun /\ weekly_result.passed
               /\ result.monthly_trend = monthly_label
               /\ result.monthly_trend # "DOWNTREND"
               /\ result.weekly_score > 0

C13_Witness ==
    HasRow /\ result.monthly_trend = "BASE_BUILDING" /\ result.weekly_score > 100

\* C15: the MA40 field of a row is the latest 40-week moving average, the value
\* the gate checked: positive and below the latest weekly close.
C15_Ma40FieldIsGateValue ==
    HasRow =>
        LET df == calculate_all_indicators(weekly_df, "weekly")
            ma == MA(df, 40, NRows(df))
        IN /\ ~IsNaN(ma)
           /\ result.ma40_weekly.sum * 40 = Val(ma) * result.ma40_weekly.n
           /\ result.ma40_weekly.sum > 0
           /\ result.ma40_weekly.sum < result.ma40_weekly.n * weekly_df.close[NRows(weekly_df)]

(***************************************************************************)
(* weekly_scan.main: the loop over the data directory and the watchlist.   *)
(* An instrument is the description of its three CSV files; its code is    *)
(* its index in stock_dirs.                                                *)
(***************************************************************************)
\* a CSV file on disk: its header and its rows
NoFile == [exists |-> FALSE, columns |-> <<>>, rows |-> <<>>]
CsvFile(columns, rows) == [exists |-> TRUE, columns |-> columns, rows |-> rows]

\* output_cols, weekly_scan.py lines 528-529
WatchlistColumns ==
    <<"code", "name", "monthly_trend", "weekly_score", "current_price", "ma40_weekly",
      "volume_ratio", "date">>

\* process_single_stock as one function: None, the row, or the exception that
\* leaves it.  config['pre_filter'] is read in pre_filter_stock, line 107.
weekly_scan_process_single_stock(stock, cfg) ==
    LET Row(daily, weekly, label, scored) ==
            IF scored.raised THEN KeyError
            ELSE IF ~scored.passed THEN None
            ELSE ResultRow(daily,
                           CallerFrame(weekly, calculate_all_indicators(weekly, "weekly")),
                           label, scored)
        Classified(daily, weekly, label) ==
            IF label = "DOWNTREND" THEN None
            ELSE Row(daily, weekly, label,
                     check_weekly_structure(weekly, cfg.weekly.mandatory))
        Loaded(daily, weekly, monthly) ==
            IF daily = None \/ weekly = None \/ monthly = None THEN None
            ELSE IF "pre_filter" \notin DOMAIN cfg THEN KeyError
            ELSE IF ~pre_filter_stock(daily, cfg.pre_filter).passed THEN None
            ELSE Classified(daily, weekly, judge_monthly_trend(monthly, cfg.monthly))
    IN Loaded(load_kline_data(IF stock.daily = None THEN None ELSE DailyFile(stock.daily)),
              IF stock.weekly = None THEN None ELSE Frame(stock.weekly),
              IF stock.monthly = None THEN None ELSE Frame(stock.monthly))

ScanDailyFiles ==
    {f \in FunnelDailyFiles : f.rows = 60 /\ f.st = "0" /\ ~f.st_note /\ f.amount = 20}
ScanWeeklyShapes ==
    {sh \in WeeklyShapes : sh.n1 > 33 /\ sh.d1 = 0 /\ sh.d2 = 1 /\ sh.d3 \in {0, 12}
                           /\ (sh.n1 = 44 <=> sh.d3 = 0)
                           /\ sh.vup = 16 /\ sh.vdown = 10 /\ sh.halt = 0}
ScanMonthlyShapes ==
    {sh \in FunnelMonthlyShapes : sh.d3 = 0 /\ (sh.d1 = 0 \/ sh.d2 = 2)}
ScanStocks ==
    [daily : ScanDailyFiles, weekly : ScanWeeklyShapes, monthly : ScanMonthlyShapes]

MaxStocks == 3

\* the configuration file; load_config does not validate it, so a section or a
\* key may be missing
FullConfigs ==
    {[pre_filter |-> c.pre_filter, monthly |-> c.monthly, weekly |-> c.weekly,
      output |-> [watchlist |-> [max_stocks |-> o[1], prefer_base_building |-> o[2]]]] :
        c \in FunnelConfigs, o \in {1, 2} \X BOOLEAN}
DropKey(d, key) == [k \in (DOMAIN d) \ {key} |-> d[k]]
IncompleteBase ==
    {q \in FullConfigs : q.weekly.mandatory.volume_lookback = 8
                         /\ q.output.watchlist.max_stocks = 2
                         /\ q.output.watchlist.prefer_base_building}
ScanConfigs ==
    FullConfigs
    \cup {DropKey(c, "pre_filter") : c \in IncompleteBase}
    \cup {[c EXCEPT !.output.watchlist = DropKey(@, "max_stocks")] : c \in IncompleteBase}

\* what process_single_stock gives for each configuration and instrument
WeeklyOutcomes ==
    {<<c, st, weekly_scan_process_single_stock(st, c)>> : c \in ScanConfigs, st \in ScanStocks}
\* the same with a flag kept across instruments: nothing passes once an
\* instrument has raised
WeeklyOutcomeAfterFailure(cfg, stock) ==
    IF skipped.weekly # {} THEN None
    ELSE (CHOOSE o \in WeeklyOutcomes : o[1] = cfg /\ o[2] = stock)[3]
WeeklyOutcome(cfg, stock) ==
    (CHOOSE o \in WeeklyOutcomes : o[1] = cfg /\ o[2] = stock)[3]

\* the watchlist a completed earlier run left on disk
EarlierWatchlists ==
    {CsvFile(WatchlistColumns,
             <<[code |-> 1, monthly_trend |-> "UPTREND", weekly_score |-> 125,
                current_price |-> 20, ma40_weekly |-> [sum |-> 0, n |-> 1]]>>)}

IndexOrders(n) == {q \in [1..n -> 1..n] : \A i, j \in 1..n : i # j => q[i] # q[j]}
Reorder(rows, q) == [i \in 1..Len(rows) |-> rows[q[i]]]
SeqHead(rows, n) == IF Len(rows) <= n THEN rows ELSE SubSeq(rows, 1, n)

\* sort_values('weekly_score', ascending=False): the order of rows of equal
\* score is not defined by the default sort
ByScore(rows) ==
    {Reorder(rows, q) : q \in {r \in IndexOrders(Len(rows)) :
        \A i, j \in 1..Len(rows) :
            i < j => rows[r[i]].weekly_score >= rows[r[j]].weekly_score}}

\* sort_priority: BASE_BUILDING 1, UPTREND 2
sort_priority(row) == IF row.monthly_trend = "BASE_BUILDING" THEN 1 ELSE 2

\* the same sort by score only, whatever prefer_base_building says
ByPriorityThenScoreIgnored(rows) == ByScore(rows)
\* sort_values(['sort_priority', 'weekly_score'], ascending=[True, False]): a
\* sort on two keys keeps rows equal on both in their order
ByPriorityThenScore(rows) ==
    {Reorder(rows, q) : q \in {r \in IndexOrders(Len(rows)) :
        \A i, j \in 1..Len(rows) :
            i < j => \/ sort_priority(rows[r[i]]) < sort_priority(rows[r[j]])
                     \/ /\ sort_priority(rows[r[i]]) = sort_priority(rows[r[j]])
                        /\ \/ rows[r[i]].weekly_score > rows[r[j]].weekly_score
                           \/ /\ rows[r[i]].weekly_score = rows[r[j]].weekly_score
                              /\ r[i] < r[j]}}

\* config.get('output', {}).get('watchlist', {}).get('prefer_base_building', False)
PreferBase(cfg) ==
    "output" \in DOMAIN cfg /\ "watchlist" \in DOMAIN cfg.output
    /\ "prefer_base_building" \in DOMAIN cfg.output.watchlist
    /\ cfg.output.watchlist.prefer_base_building

InitScan ==
    /\ mode = "scan"
    /\ pc = "weekly_loop"
    /\ config \in ScanConfigs
    /\ stock_dirs \in [1..MaxStocks -> ScanStocks]
    /\ position = 1
    /\ results = <<>>
    /\ skipped = [weekly |-> {}, rank |-> {}, daily |-> {}]
    /\ visited = [weekly |-> {}, rank |-> {}, daily |-> {}]
    /\ stage_config = NotRun
    /\ signals = <<>>
    /\ watchlist_file \in {NoFile} \cup EarlierWatchlists
    /\ signals_file = NoFile
    /\ ranked = NotRun
    /\ exit_code = [weekly |-> -1, rank |-> -1, daily |-> -1]
    /\ result = Idle /\ daily_df = Idle
    /\ StopIdle /\ ScoreIdle /\ IndIdle /\ WeeklyIdle /\ MonthlyIdle /\ BreakoutIdle /\ RunIdle

\* except Exception ... continue: the loop goes on with the next instrument
\* (weekly_scan.py 497-499, daily_scan.py 424-426, ml_ranker.py 121-126)
AfterInstrumentAbort(raised, at, n) == IF raised THEN n + 1 ELSE at + 1
AfterInstrument(raised, at, n) == at + 1

\* lines 490-499: one instrument; an exception is printed and the loop goes on
WeeklyLoop ==
    /\ mode = "scan" /\ pc = "weekly_loop" /\ position <= Len(stock_dirs)
    /\ \E out \in {WeeklyOutcome(config, stock_dirs[position])} :
          /\ skipped' = IF out = KeyError
                        THEN [skipped EXCEPT !.weekly = @ \cup {position}] ELSE skipped
          /\ results' = IF out = KeyError \/ out = None THEN results
                        ELSE Append(results, [code |-> position] @@ out)
          /\ position' = AfterInstrument(out = KeyError, position, Len(stock_dirs))
    /\ visited' = [visited EXCEPT !.weekly = @ \cup {position}]
    /\ UNCHANGED <<mode, pc, daily_df, config, stopVars, scoreVars, indVars, weeklyVars,
                   monthlyVars, breakoutVars, runVars, result, stock_dirs, stage_config,
                   signals, watchlist_file, signals_file, ranked, exit_code>>

\* lines 502-530 and the return: nothing is written for an empty result list;
\* max_stocks is read after the sort
WeeklyReport ==
    /\ mode = "scan" /\ pc = "weekly_loop" /\ position > Len(stock_dirs)
    /\ IF results = <<>>
       THEN watchlist_file' = watchlist_file /\ exit_code' = [exit_code EXCEPT !.weekly = 0]
       ELSE IF "max_stocks" \notin DOMAIN config.output.watchlist
       THEN watchlist_file' = watchlist_file /\ exit_code' = [exit_code EXCEPT !.weekly = 1]
       ELSE /\ \E sorted \in (IF PreferBase(config) THEN ByPriorityThenScore(results)
                              ELSE ByScore(results)) :
                 watchlist_file' =
                     CsvFile(WatchlistColumns,
                             SeqHead(sorted, config.output.watchlist.max_stocks))
            /\ exit_code' = [exit_code EXCEPT !.weekly = 0]
    /\ pc' = "weekly_done"
    /\ UNCHANGED <<mode, daily_df, config, stopVars, scoreVars, indVars, weeklyVars,
                   monthlyVars, breakoutVars, runVars, result, stock_dirs, position, results,
                   skipped, visited, stage_config, signals, signals_file, ranked>>

(***************************************************************************)
(* MLRanker.rank_stocks (ml_ranker.py), called on the watchlist on disk    *)
(***************************************************************************)
\* the feature dictionaries extract_features may return
RankFeatures ==
    [MA10_slope : {0}, return_6m : {-900}, ma_alignment : {0},
     volatility_contraction : {0, 100}, consolidation_score : {0},
     volume_up_down_ratio : {0}, volume_cooperation : {0}, MACD : {-5}, macd_cross : {0},
     momentum_6m : {-5}]
RankForecasts == {p \in ForecastResults : p = <<>> \/ p[1].forecast_return = 120}

\* ml_ranking.output of the configuration
RankConfigs == [ml_ranking : [output : [top_n : {1, 2}, min_score : {60}]]]

\* run_full_scan reads the watchlist and constructs the ranker
StartRank ==
    /\ mode = "scan" /\ pc = "weekly_done"
    /\ IF watchlist_file.exists
       THEN /\ stage_config' \in RankConfigs
            /\ pc' = "rank_loop"
            /\ exit_code' = exit_code
       ELSE /\ stage_config' = stage_config
            /\ pc' = "rank_done"
            /\ exit_code' = [exit_code EXCEPT !.rank = 1]
    /\ position' = 1
    /\ ranked' = [rows |-> <<>>, table |-> <<>>, returned |-> FALSE]
    /\ UNCHANGED <<mode, daily_df, config, stopVars, scoreVars, indVars, weeklyVars,
                   monthlyVars, breakoutVars, runVars, result, stock_dirs, results, skipped,
                   visited, signals, watchlist_file, signals_file>>

\* lines 81-126, one watchlist row.  The features come from the monthly series
\* by simple_feature_engineering, the forecast from Prophet.  A failure in
\* either is handled before it reaches the loop's own except clause:
\* extract_features returns None (the row is passed over), predict_trend
\* returns None (the row is scored without a forecast)
RankLoop ==
    /\ mode = "scan" /\ pc = "rank_loop" /\ position <= Len(watchlist_file.rows)
    /\ LET row == watchlist_file.rows[position]
           monthly_file == stock_dirs[row.code].monthly
       IN \E extracted \in RankFeatures \cup {None}, pred \in RankForecasts :
            LET too_short == monthly_file = None \/ ShapeLen(monthly_file) < 24
                scored == ~too_short /\ extracted # None
            IN /\ ranked' = IF scored
                            THEN [ranked EXCEPT !.rows =
                                     Append(@, [ml_score |-> calculate_score(extracted, pred)]
                                               @@ row)]
                            ELSE ranked
               /\ position' = AfterInstrument(FALSE, position, Len(watchlist_file.rows))
    /\ visited' = [visited EXCEPT !.rank = @ \cup {position}]
    /\ UNCHANGED <<mode, pc, daily_df, config, stopVars, scoreVars, indVars, weeklyVars,
                   monthlyVars, breakoutVars, runVars, result, stock_dirs, results, skipped,
                   stage_config, signals, watchlist_file, signals_file, exit_code>>

\* the same sort, ascending
ByMlScoreAscending(rows) ==
    {Reorder(rows, q) : q \in {r \in IndexOrders(Len(rows)) :
        \A i, j \in 1..Len(rows) : i < j => rows[r[i]].ml_score <= rows[r[j]].ml_score}}
\* sort_values('ml_score', ascending=False); rows of equal score in any order
ByMlScore(rows) ==
    {Reorder(rows, q) : q \in {r \in IndexOrders(Len(rows)) :
        \A i, j \in 1..Len(rows) : i < j => rows[r[i]].ml_score >= rows[r[j]].ml_score}}

\* results_df[results_df['ml_score'] >= min_score]
RECURSIVE AtLeast(_, _)
AtLeast(rows, min_score) ==
    IF rows = <<>> THEN <<>>
    ELSE IF Head(rows).ml_score >= min_score
         THEN <<Head(rows)>> \o AtLeast(Tail(rows), min_score)
         ELSE AtLeast(Tail(rows), min_score)

\* line 143: the score filter, then head(top_n)
FilterThenHead(rows, min_score, top_n) == SeqHead(AtLeast(rows, min_score), top_n)

\* lines 128-145
RankReport ==
    /\ mode = "scan" /\ pc = "rank_loop" /\ position > Len(watchlist_file.rows)
    /\ IF ranked.rows = <<>>
       THEN ranked' = [ranked EXCEPT !.returned = TRUE]
       ELSE \E sorted \in ByMlScore(ranked.rows) :
                ranked' = [ranked EXCEPT
                              !.returned = TRUE,
                              !.table = FilterThenHead(sorted,
                                            stage_config.ml_ranking.output.min_score,
                                            stage_config.ml_ranking.output.top_n)]
    /\ exit_code' = [exit_code EXCEPT !.rank = 0]
    /\ pc' = "rank_done"
    /\ UNCHANGED <<mode, daily_df, config, stopVars, scoreVars, indVars, weeklyVars,
                   monthlyVars, breakoutVars, runVars, result, stock_dirs, position, results,
                   skipped, visited, stage_config, signals, watchlist_file, signals_file>>

(***************************************************************************)
(* daily_scan.main: the loop over the watchlist and the signals table      *)
(***************************************************************************)
\* the daily series of an instrument at the time of the daily scan, and whether
\* its CSV holds the volume column
ScanDailyShapes ==
    [p0 : {20}, n1 : {55}, d1 : {0}, n2 : {3}, d2 : {1}, n3 : {3}, d3 : {2}, vup : {30},
     vdown : {10}, vflat : {10}, wick : {0}, halt : {0}]
    \cup [p0 : {20}, n1 : {20, 56}, d1 : {1}, n2 : {8}, d2 : {0}, n3 : {1}, d3 : {1},
          vup : {30}, vdown : {30}, vflat : {10}, wick : {0}, halt : {0}]
DailyInputs == [bars : ScanDailyShapes, has_volume : BOOLEAN]

DailyConfigs ==
    [daily : {c \in DailyParams : c.breakout.rsi_threshold = 30},
     output : [daily_signals : [max_signals : {1}]]]

\* process_single_stock, lines 315-344: the trigger, None, or the exception.
\* calculate_volume_ratio reads df['volume'] (indicators.py 177): KeyError when
\* the file has no such column
DailyTrigger(input, weekly_shape, cfg) ==
    IF ~input.has_volume THEN KeyError
    ELSE LET df == calculate_all_indicators(Frame(input.bars), "daily")
             pivot == SeqMax(DfTail(Frame(weekly_shape).high, 20))
             breakout == detect_breakout_trigger(df, pivot, cfg.daily.breakout)
         IN IF NRows(df) < 60 THEN None
            ELSE IF breakout # None THEN breakout
            ELSE detect_pullback_trigger(df, cfg.daily.pullback)

DailyTriggers ==
    {<<c, w, in, DailyTrigger(in, w, c)>> :
        c \in DailyConfigs, w \in ScanWeeklyShapes, in \in DailyInputs}

\* process_single_stock, lines 346-379: the fields of the row the report sorts
\* and counts; the prices, the stop and the levels are left out
daily_scan_process_single_stock(input, weekly_shape, weekly_info, cfg) ==
    LET Row(trigger) ==
            IF trigger = KeyError \/ trigger = None THEN trigger
            ELSE [code            |-> weekly_info.code,
                  trigger_type    |-> trigger.trigger_type,
                  signal_strength |-> trigger.signal_strength,
                  weekly_score    |-> weekly_info.weekly_score,
                  monthly_trend   |-> weekly_info.monthly_trend]
    IN Row((CHOOSE o \in DailyTriggers :
                o[1] = cfg /\ o[2] = weekly_shape /\ o[3] = input)[4])

\* lines 396-402: the watchlist must exist
StartDaily ==
    /\ mode = "scan" /\ pc = "weekly_done"
    /\ IF watchlist_file.exists
       THEN /\ stage_config' \in DailyConfigs
            /\ pc' = "daily_loop"
            /\ exit_code' = exit_code
       ELSE /\ stage_config' = stage_config
            /\ pc' = "daily_done"
            /\ exit_code' = [exit_code EXCEPT !.daily = 1]
    /\ position' = 1
    /\ signals' = <<>>
    /\ UNCHANGED <<mode, daily_df, config, stopVars, scoreVars, indVars, weeklyVars,
                   monthlyVars, breakoutVars, runVars, result, stock_dirs, results, skipped,
                   visited, watchlist_file, signals_file, ranked>>

\* lines 417-426, one watchlist row
DailyLoop ==
    /\ mode = "scan" /\ pc = "daily_loop" /\ position <= Len(watchlist_file.rows)
    /\ LET row == watchlist_file.rows[position]
       IN \E input \in DailyInputs :
            \E out \in {daily_scan_process_single_stock(input, stock_dirs[row.code].weekly,
                                                         row, stage_config)} :
               /\ skipped' = IF out = KeyError
                             THEN [skipped EXCEPT !.daily = @ \cup {position}] ELSE skipped
               /\ signals' = IF out = KeyError \/ out = None THEN signals
                             ELSE Append(signals, out)
               /\ position' = AfterInstrument(out = KeyError, position,
                                              Len(watchlist_file.rows))
    /\ visited' = [visited EXCEPT !.daily = @ \cup {position}]
    /\ UNCHANGED <<mode, pc, daily_df, config, stopVars, scoreVars, indVars, weeklyVars,
                   monthlyVars, breakoutVars, runVars, result, stock_dirs, results,
                   stage_config, watchlist_file, signals_file, ranked, exit_code>>

\* the header of the table written when no signal was found, lines 432-433
EmptySignalColumns ==
    <<"code", "name", "trigger_type", "entry_price", "stop_loss", "risk_pct",
      "signal_strength">>
\* output_cols, lines 448-450
SignalColumns ==
    <<"code", "name", "trigger_type", "entry_price", "stop_loss", "risk_pct",
      "volume_ratio", "rsi", "signal_strength", "weekly_score", "monthly_trend",
      "support", "resistance", "date">>

\* composite_score = signal_strength * 30 + weekly_score * 0.7, in tenths
composite_score(row) == 300 * row.signal_strength + 7 * row.weekly_score

\* sort_values('composite_score', ascending=False)
ByComposite(rows) ==
    {Reorder(rows, q) : q \in {r \in IndexOrders(Len(rows)) :
        \A i, j \in 1..Len(rows) :
            i < j => composite_score(rows[r[i]]) >= composite_score(rows[r[j]])}}

\* lines 429-457
DailyReport ==
    /\ mode = "scan" /\ pc = "daily_loop" /\ position > Len(watchlist_file.rows)
    /\ IF signals = <<>>
       THEN signals_file' = CsvFile(EmptySignalColumns, <<>>)
       ELSE \E sorted \in ByComposite(signals) :
                signals_file' =
                    CsvFile(SignalColumns,
                            SeqHead(sorted, stage_config.output.daily_signals.max_signals))
    /\ exit_code' = [exit_code EXCEPT !.daily = 0]
    /\ pc' = "daily_done"
    /\ UNCHANGED <<mode, daily_df, config, stopVars, scoreVars, indVars, weeklyVars,
                   monthlyVars, breakoutVars, runVars, result, stock_dirs, position, results,
                   skipped, visited, stage_config, signals, watchlist_file, ranked>>

NextScan ==
    \/ WeeklyLoop \/ WeeklyReport
    \/ StartRank \/ RankLoop \/ RankReport
    \/ StartDaily \/ DailyLoop \/ DailyReport

SpecScan == InitScan /\ [][NextScan]_vars

Range(rows) == {rows[i] : i \in DOMAIN rows}

\* the weekly run returned 0 having found something
WroteWatchlist ==
    mode = "scan" /\ pc # "weekly_loop" /\ exit_code.weekly = 0 /\ results # <<>>

\* row a is ahead of row b in the order the configuration asks for
RanksAhead(a, b) ==
    IF PreferBase(config)
    THEN \/ sort_priority(a) < sort_priority(b)
         \/ sort_priority(a) = sort_priority(b) /\ a.weekly_score > b.weekly_score
    ELSE a.weekly_score > b.weekly_score

\* C14: the watchlist a run writes holds at most max_stocks rows, and they are
\* the top rows of the run: ordered by weekly score descending, or with
\* prefer_base_building every BASE_BUILDING row before every UPTREND row and by
\* score descending within each label; no row left out ranks ahead of a row
\* kept.
C14_WatchlistTopRows ==
    WroteWatchlist =>
        LET rows == watchlist_file.rows
            max_stocks == config.output.watchlist.max_stocks
        IN /\ Len(rows) <= max_stocks
           /\ Len(rows) = Min2(Len(results), max_stocks)
           /\ Range(rows) \subseteq Range(results)
           /\ \A i, j \in 1..Len(rows) : i < j => ~RanksAhead(rows[j], rows[i])
           /\ \A left \in Range(results) \ Range(rows), kept \in Range(rows) :
                  ~RanksAhead(left, kept)

C14_Witness ==
    /\ WroteWatchlist /\ PreferBase(config)
    /\ Len(results) = 3 /\ Len(watchlist_file.rows) = 2
    /\ watchlist_file.rows[1].monthly_trend = "BASE_BUILDING"
    /\ watchlist_file.rows[2].monthly_trend = "UPTREND"
    /\ watchlist_file.rows[1].weekly_score < watchlist_file.rows[2].weekly_score

LoopDone(stage) ==
    /\ mode = "scan"
    /\ \/ stage = "weekly" /\ pc # "weekly_loop"
       \/ stage = "rank" /\ pc = "rank_done" /\ exit_code.rank = 0
       \/ stage = "daily" /\ pc = "daily_done" /\ exit_code.daily = 0

Codes(rows) == {rows[i].code : i \in DOMAIN rows}

ThresholdMissing(cfg) ==
    "pre_filter" \notin DOMAIN cfg \/ "max_stocks" \notin DOMAIN cfg.output.watchlist

\* C17: when a required threshold is missing from the configuration the run
\* fails at startup: no instrument is processed and the run does not return 0.
C17_MissingThresholdFatalAtStartup ==
    (mode = "scan" /\ ThresholdMissing(config)) =>
        /\ visited.weekly = {}
        /\ pc # "weekly_loop" => exit_code.weekly # 0

\* C18: the daily-signals table has the same 14 columns whether signals were
\* found or not.
C18_SignalsTableSameColumns ==
    (mode = "scan" /\ signals_file.exists) => signals_file.columns = SignalColumns

\* C19: a weekly run that completes serialises its result set, the empty one
\* included, so the watchlist on disk (the one the daily stage reads) is that
\* of the most recent completed run and never a leftover.
C19_CompletedRunSerialisesResults ==
    (mode = "scan" /\ pc # "weekly_loop" /\ exit_code.weekly = 0) =>
        /\ watchlist_file.exists
        /\ Range(watchlist_file.rows) \subseteq Range(results)

\* C20: the table rank_stocks returns holds only scores at or above min_score,
\* at most top_n rows, in descending order of score, and leaves out no candidate
\* with a higher score than one it holds.
C20_RankedOutput ==
    (mode = "scan" /\ pc = "rank_done" /\ ranked.returned) =>
        LET out == ranked.table
            min_score == stage_config.ml_ranking.output.min_score
            top_n == stage_config.ml_ranking.output.top_n
        IN /\ \A i \in 1..Len(out) : out[i].ml_score >= min_score
           /\ Len(out) <= top_n
           /\ \A i, j \in 1..Len(out) : i < j => out[i].ml_score >= out[j].ml_score
           /\ Range(out) \subseteq Range(ranked.rows)
           /\ \A left \in Range(ranked.rows) \ Range(out), kept \in Range(out) :
                  left.ml_score <= kept.ml_score
           /\ Len(out) < top_n =>
                  \A left \in Range(ranked.rows) \ Range(out) : left.ml_score < min_score

C20_Witness ==
    /\ mode = "scan" /\ pc = "rank_done" /\ ranked.returned
    /\ Len(ranked.rows) = 2 /\ Len(ranked.table) = 1
    /\ ranked.rows[1].ml_score >= 60
    /\ ranked.rows[2].ml_score > ranked.rows[1].ml_score
    /\ ranked.table[1] = ranked.rows[2]

(***************************************************************************)
(* The tiers of calculate_score                                            *)
(***************************************************************************)
ScoreDone == mode = "score" /\ pc = "done"

StreakShape ==
    [p0 |-> 20, n1 |-> 44, d1 |-> 0, n2 |-> 3, d2 |-> 1, n3 |-> 3, d3 |-> 0,
     vup |-> 16, vdown |-> 10, vflat |-> 10, wick |-> 1, halt |-> 0]

\* the volumes of the last 8 weeks: the baseline weeks, then weeks at 1.2 times
\* the baseline (12), above it (13), or suspended
StreakVolumes ==
    {b \o w : b \in {<<Num(10), Num(10), Num(10), Num(10)>>,
                      <<NaN, Num(10), Num(10), Num(10)>>},
              w \in [1..4 -> {Num(12), Num(13), NaN}]}

WithLastVolumes(df, vols) ==
    [df EXCEPT !.volume = [k \in 1..NRows(df) |->
                              IF k > NRows(df) - 8 THEN vols[k - (NRows(df) - 8)] ELSE @[k]]]

StreakParams ==
    {c \in WeeklyParams :
        /\ c.close_above_ma40 /\ c.close_above_ma10 /\ c.macd_positive_or_golden
        /\ c.ma40_slope_min = 0 /\ c.volume_lookback = 8 /\ ~c.consecutive_volume.enabled}
StreakConfigs ==
    StreakParams \cup
    {[c EXCEPT !.consecutive_volume =
          [enabled |-> TRUE, min_weeks |-> o[1], volume_increase_ratio |-> 120,
           max_bonus |-> o[2]]] : c \in StreakParams, o \in {1, 2, 3} \X {10, 15}}

InitStreak ==
    /\ mode = "weekly"
    /\ pc = "start"
    /\ \E vols \in StreakVolumes : weekly_df = WithLastVolumes(Frame(StreakShape), vols)
    /\ config \in StreakConfigs
    /\ weekly_result = Idle
    /\ daily_df = Idle
    /\ StopIdle /\ ScoreIdle /\ IndIdle /\ MonthlyIdle /\ BreakoutIdle /\ RunIdle /\ ScanIdle

SpecStreak == InitStreak /\ [][NextWeekly]_vars

\* week j of the last 8 is above the mean volume of the first 4 times the ratio
Last8 == DfTail(weekly_df.volume, 8)
Expands(j) ==
    /\ ~IsNaN(Last8[j]) /\ ~IsNaN(MeanOver(Last8, 1..4))
    /\ 100 * Val(Last8[j]) * Val(MeanOver(Last8, 1..4)).d
           > Val(MeanOver(Last8, 1..4)).n * config.consecutive_volume.volume_increase_ratio
\* the length of the run of expanding weeks that ends at the latest week
RunAtLatestWeek ==
    CHOOSE k \in 0..4 : /\ \A j \in (9 - k)..8 : Expands(j)
                        /\ k < 4 => ~Expands(8 - k)
StreakBonus ==
    IF ~config.consecutive_volume.enabled THEN 0
    ELSE IF RunAtLatestWeek >= config.consecutive_volume.min_weeks
    THEN Min2((RunAtLatestWeek - config.consecutive_volume.min_weeks + 1) * 5,
              config.consecutive_volume.max_bonus)
    ELSE 0

\* C27: the streak of check_weekly_structure is taken over the last 8 weeks:
\* the baseline is the mean volume of the first 4, a week of the last 4 above
\* baseline x ratio adds one and any other week resets, so the count is the
\* length of the expanding run that ends at the latest week, in 0..4, and the
\* bonus is min((count - min_weeks + 1) * 5, max_bonus) when count >= min_weeks
\* and 0 otherwise.
C27_StreakIsRunAtLatestWeek ==
    WeeklyPassed =>
        /\ StreakAfter(Last8, MeanOver(Last8, 1..4),
                       config.consecutive_volume.volume_increase_ratio, 8) = RunAtLatestWeek
        /\ RunAtLatestWeek \in 0..4
        /\ weekly_result.score =
               AppliedGatePoints + SlopeBonus(WeeklyWorked) + MacdBonus(WeeklyWorked)
               + VolumeBonus(WeeklyVolumeAnalysis) + PositionBonus(WeeklyWorked)
               + RsiBonus(WeeklyWorked) + StreakBonus

\* an earlier expanding week is forgotten after a reset: weeks 5 and 6 expand,
\* week 7 does not, week 8 does; the count is 1 and earns the first tier
C27_Witness ==
    /\ WeeklyPassed
    /\ Expands(5) /\ Expands(6) /\ ~Expands(7) /\ Expands(8)
    /\ config.consecutive_volume.enabled /\ config.consecutive_volume.min_weeks = 1
    /\ RunAtLatestWeek = 1 /\ StreakBonus = 5

(***************************************************************************)
(* The consolidation check of judge_monthly_trend, lines 202-212           *)
(***************************************************************************)
\* 24 months: a fall or a flat stretch, four flat or falling months, and six
\* months that fall, stay flat or rise
ConsolidationShapes ==
    [p0 : {200}, n1 : {14}, d1 : {-6, 0}, n2 : {4}, d2 : {-6, 0}, n3 : {6},
     d3 : {-6, 0, 4}, vup : {16, 30}, vdown : {20}, vflat : {10}, wick : {1}, halt : {0}]

InitConsolidation ==
    /\ mode = "monthly"
    /\ pc = "start"
    /\ monthly_df \in {Frame(sh) : sh \in ConsolidationShapes}
    /\ config \in MonthlyParams
    /\ monthly_label = Idle
    /\ first_label = Idle
    /\ calls = 0
    /\ daily_df = Idle
    /\ StopIdle /\ ScoreIdle /\ IndIdle /\ WeeklyIdle /\ BreakoutIdle /\ RunIdle /\ ScanIdle

SpecConsolidation == InitConsolidation /\ [][NextMonthly]_vars

\* the closes of rows last-n+1..last have a coefficient of variation below the
\* threshold
CalmWindow(last, n) ==
    VolatilityBelow([close |-> SubSeq(monthly_df.close, 1, last)], n,
                    config.base_building.volatility_threshold)
WindowLengths ==
    config.base_building.consolidation_months_min ..
        config.base_building.consolidation_months_max
CalmSomewhere == \E n \in WindowLengths : \E last \in n..NRows(monthly_df) : CalmWindow(last, n)
CalmAtEnd == \E n \in WindowLengths : CalmWindow(NRows(monthly_df), n)

\* the label the call returns when the consolidation check counts as `calm`
LabelWith(calm) ==
    LET base == [MonthlyBase EXCEPT ![2].ok = calm]
    IN IF Passes(MonthlyUp) THEN "UPTREND"
       ELSE IF Passes(base) THEN "BASE_BUILDING"
       ELSE "DOWNTREND"

\* C28 as stated: the consolidation check passes whenever some sub-window of the
\* series of length consolidation_months_min..consolidation_months_max has a
\* coefficient of variation of closes below volatility_threshold, wherever in
\* the series the sub-window lies.
C28_CalmAnywherePasses ==
    (MonthlyCalled /\ NRows(monthly_df) >= 24) =>
        /\ CalmSomewhere => MonthlyBase[2].ok
        /\ monthly_label = LabelWith(CalmSomewhere)

\* C28 amended: the check passes exactly when one of the trailing windows, the
\* last n closes for n in consolidation_months_min..consolidation_months_max,
\* has a coefficient of variation below volatility_threshold; a calm stretch
\* that ends before the latest bar does not count.
C28_CalmAtEndPasses ==
    (MonthlyCalled /\ NRows(monthly_df) >= 24) =>
        /\ MonthlyBase[2].ok <=> CalmAtEnd
        /\ monthly_label = LabelWith(CalmAtEnd)

\* a series with a calm stretch in the middle and none at the end: the check
\* fails and the series, BASE_BUILDING had it passed, is DOWNTREND
C28_Witness ==
    /\ MonthlyCalled /\ NRows(monthly_df) >= 24
    /\ CalmSomewhere /\ ~CalmAtEnd
    /\ ~MonthlyBase[2].ok
    /\ monthly_label = "DOWNTREND" /\ LabelWith(TRUE) = "BASE_BUILDING"

(***************************************************************************)
(* The row of the daily process_single_stock, lines 346-372: the entry     *)
(* price, the stop-loss and the support and resistance levels              *)
(***************************************************************************)
\* find_support_resistance(df, lookback), indicators.py 384-408
find_support_resistance(df, lookback) ==
    IF NRows(df) < lookback THEN [support |-> None, resistance |-> None]
    ELSE [support    |-> SeqMin(DfTail(df.low, lookback)),
          resistance |-> SeqMax(DfTail(df.high, lookback)),
          current    |-> df.close[NRows(df)]]

\* the frame as calculate_stop_loss reads it.  The ATR column holds the sum of
\* 14 true ranges, 14 times the ATR; the stop-loss is linear in the prices, so
\* the lows and the entry price are taken 14 times too and the stop comes out
\* in 1/14000 of a tick.
AtrScale == 14
StopFrame(df) ==
    [has_atr |-> "ATR" \in df.columns,
     ATR     |-> Column(df, "ATR", NRows(df)),
     low     |-> [k \in 1..NRows(df) |-> AtrScale * df.low[k]]]

SignalConfigs ==
    [breakout : {c.breakout : c \in DailyParams}, pullback : {c.pullback : c \in DailyParams},
     stop_loss : [initial_pct : {50, 150}, atr_multiplier : {20, 80},
                  use_structure_low : BOOLEAN]]

\* the daily series, at two price levels
SignalShapes == {[sh EXCEPT !.p0 = p] : sh \in PullbackShapes, p \in {20, 100}}

InitSignal ==
    /\ mode = "daily"
    /\ pc = "start"
    /\ \E sh \in SignalShapes :
          /\ daily_df = calculate_all_indicators(Frame(sh), "daily")
          /\ \E off \in {-2, 1} : weekly_pivot = ShapeClose(sh, ShapeLen(sh)) + off
    /\ config \in SignalConfigs
    /\ breakout_signal = NotRun /\ pullback_signal = NotRun /\ signal = NotRun
    /\ daily_file = Idle /\ prefilter = Idle /\ ScanIdle
    /\ StopIdle /\ ScoreIdle /\ IndIdle /\ WeeklyIdle /\ MonthlyIdle

\* lines 343-372: no row without a signal; else the entry price is the latest
\* close, and the row takes the stop-loss and the two levels before rounding
BuildResult ==
    /\ mode = "daily" /\ pc = "done"
    /\ result' = IF signal = None THEN None
                 ELSE [trigger_type |-> signal.trigger_type,
                       entry_price  |-> daily_df.close[NRows(daily_df)],
                       stop_loss    |-> calculate_stop_loss(
                                            StopFrame(daily_df),
                                            AtrScale * daily_df.close[NRows(daily_df)],
                                            config.stop_loss).stop_loss,
                       support      |-> find_support_resistance(daily_df, 20).support,
                       resistance   |-> find_support_resistance(daily_df, 20).resistance]
    /\ pc' = "returned"
    /\ UNCHANGED <<mode, daily_df, config, stopVars, scoreVars, indVars, weeklyVars,
                   monthlyVars, breakoutVars, runVars, loopVars>>

NextSignal == NextDaily \/ BuildResult

SpecSignal == InitSignal /\ [][NextSignal]_vars

\* every bar has 0 < low <= close <= high
WellFormedBars(df) ==
    \A k \in 1..NRows(df) : 0 < df.low[k] /\ df.low[k] <= df.close[k] /\ df.close[k] <= df.high[k]

SignalReturned == mode = "daily" /\ pc = "returned" /\ result # None

\* C30: for every signal the daily process_single_stock emits on well-formed
\* bars, before rounding, support <= entry price <= resistance, support and
\* resistance being the lowest low and the highest high of the trailing 20
\* sessions, and with use_structure_low the stop-loss is at least 0.99 x support.
C30_LevelsBracketEntry ==
    (SignalReturned /\ WellFormedBars(daily_df)) =>
        /\ result.support = SeqMin(DfTail(daily_df.low, 20))
        /\ result.resistance = SeqMax(DfTail(daily_df.high, 20))
        /\ result.support <= result.entry_price
        /\ result.entry_price <= result.resistance
        /\ config.stop_loss.use_structure_low =>
               result.stop_loss >= 990 * AtrScale * result.support

\* a signal whose stop-loss is the structure low: 0.99 x support, above the
\* percentage stop and within 10% of the entry price
C30_Witness ==
    /\ SignalReturned /\ WellFormedBars(daily_df)
    /\ config.stop_loss.use_structure_low
    /\ result.stop_loss = 990 * AtrScale * result.support
    /\ result.support < result.entry_price /\ result.entry_price < result.resistance

(***************************************************************************)
(* The series a stage is given                                             *)
(***************************************************************************)
\* C26: no stage modifies the bar series it is given: after pre_filter_stock
\* (and judge_monthly_trend, check_weekly_structure, the daily detectors,
\* calculate_stop_loss and the feature extractor) has run on a series, every
\* field of every bar of the caller's series is unchanged.
C26_SeriesReadOnly ==
    [][(mode = "pre_filter" /\ pc = "loaded") => daily_df' = daily_df]_vars

(***************************************************************************)
(* The forecast adapter (prophet_predictor.py).  forecast_return is kept   *)
(* in per-mille and confidence in hundredths, as calculate_score reads     *)
(* them.  The decomposition library is not part of the repository: what it *)
(* answers for a series is carried with the series, in its field prophet.  *)
(***************************************************************************)
\* _classify_trend, lines 186-203
classify_trend(forecast_return) ==
    IF forecast_return > 100 THEN "strong_up"
    ELSE IF forecast_return > 50 THEN "up"
    ELSE IF forecast_return > 20 THEN "weak_up"
    ELSE IF forecast_return > -20 THEN "flat"
    ELSE IF forecast_return > -50 THEN "weak_down"
    ELSE IF forecast_return > -100 THEN "down"
    ELSE "strong_down"

TrendLabels ==
    {"strong_up", "up", "weak_up", "flat", "weak_down", "down", "strong_down"}

\* _prepare_data, lines 90-112: None without the date column or with fewer than
\* 12 rows left (the series here have a date and a close on every row)
prepare_data(df) ==
    IF "date" \notin df.columns THEN None
    ELSE IF NRows(df) < 12 THEN None
    ELSE df

\* _extract_results, lines 148-184: the return against the latest close and
\* confidence = max(0, min(1, 1 - (yhat_upper - yhat_lower) / current_price))
extract_results(df, forecast) ==
    LET current_price == df.close[NRows(df)]
        forecast_return == ((forecast.yhat - current_price) * 1000) \div current_price
        uncertainty == ((forecast.yhat_upper - forecast.yhat_lower) * 100) \div current_price
    IN [forecast_return |-> forecast_return,
        trend_direction |-> classify_trend(forecast_return),
        confidence      |-> Max2(0, Min2(100, 100 - uncertainty))]

\* ProphetPredictor.predict_trend, lines 45-88: <<>> is None.  Fitting and
\* predicting are inside the try; the library failing there gives None
predict_trend(df, enabled) ==
    IF ~enabled THEN <<>>
    ELSE IF NRows(df) < 12 THEN <<>>
    ELSE IF prepare_data(df) = None THEN <<>>
    ELSE IF df.prophet.fails THEN <<>>
    ELSE <<extract_results(df, df.prophet)>>

\* linregress(x, prices) on x = 0..11, in exact sums: with X = 2x - 11,
\* S = sum X*y and V = 12 * sum y^2 - (sum y)^2,
\*   slope = S / 286,  intercept = mean - 5.5 * slope,  r^2 = 3 S^2 / (143 V)
RegressionS(prices) == SeqSum([i \in 1..12 |-> (2 * i - 13) * prices[i]])
RegressionV(prices) ==
    12 * SeqSum([i \in 1..12 |-> prices[i] * prices[i]]) - SeqSum(prices) * SeqSum(prices)

\* abs(r_value), to the tenth below; r is 0 for constant prices and is kept
\* within [-1, 1] by the library
RegressionConfidence(prices) ==
    IF RegressionV(prices) = 0 THEN 0
    ELSE 10 * (CHOOSE k \in 0..10 :
                  /\ k * k * 143 * RegressionV(prices)
                         <= 300 * RegressionS(prices) * RegressionS(prices)
                  /\ k < 10 => (k + 1) * (k + 1) * 143 * RegressionV(prices)
                                   > 300 * RegressionS(prices) * RegressionS(prices))

\* SimpleTrendPredictor.predict_trend, lines 320-361: the regression line of
\* the last 12 closes at x = 12 + 3 - 1 against the latest close
\*   predicted_price = (143 * sum y + 51 * S) / 1716
simple_predict_trend(df) ==
    IF NRows(df) < 12 THEN <<>>
    ELSE LET prices == DfTail(df.close, 12)
             current_price == prices[12]
             forecast_return ==
                 (1000 * (143 * SeqSum(prices) + 51 * RegressionS(prices)
                          - 1716 * current_price)) \div (1716 * current_price)
         IN <<[forecast_return |-> forecast_return,
               trend_direction |-> IF forecast_return > 0 THEN "up" ELSE "down",
               confidence      |-> RegressionConfidence(prices)]>>

\* the last 12 closes: a line of slope d ending at 100, its first four months
\* off the line by +k, -k, -k, +k (which changes neither slope nor intercept)
TrailingCloses(d, k) ==
    [i \in 1..12 |-> 100 + d * (i - 12)
                     + (IF i \in {1, 4} THEN k ELSE IF i \in {2, 3} THEN -k ELSE 0)]

\* a series of n months ending in the closes tail, flat before them
SeriesClose(tail, n) ==
    IF n <= 12 THEN DfTail(tail, n)
    ELSE [i \in 1..n |-> IF i <= n - 12 THEN tail[1] ELSE tail[i - (n - 12)]]

\* what the library answers: it fails, or the forecast at the horizon with
\* its 95% interval, and the trend components of extract_features_for_ml
ProphetAnswer(fails, yhat, halfwidth) ==
    [fails |-> fails, yhat |-> yhat, yhat_lower |-> yhat - halfwidth,
     yhat_upper |-> yhat + halfwidth,
     components |-> [prophet_trend_strength |-> 0, prophet_trend |-> yhat,
                     prophet_trend_change |-> 0, prophet_trend_slope |-> 0]]
ProphetAnswers ==
    {ProphetAnswer(TRUE, 100, 0)}
    \cup {ProphetAnswer(FALSE, y, w) : y \in {88, 94, 97, 100, 103, 106, 112, 120},
                                       w \in {5, 15, 60}}

MonthlySeries(tail, n, columns, answer) ==
    [close |-> SeriesClose(tail, n), columns |-> columns, prophet |-> answer]

ForecastSeries ==
    {MonthlySeries(TrailingCloses(d, k), n, c, a) :
        d \in {-4, -2, 0, 1, 2, 4}, k \in {0, 3}, n \in {11, 12, 24},
        c \in {{"date", "volume"}, {"volume"}}, a \in ProphetAnswers}

InitForecast ==
    /\ mode = "forecast"
    /\ pc = "start"
    /\ monthly_df \in ForecastSeries
    /\ config \in [enabled : BOOLEAN]
    /\ prophet_pred = Idle /\ features = Idle /\ ml_score = Idle
    /\ monthly_label = Idle /\ first_label = Idle /\ calls = 0
    /\ daily_df = Idle
    /\ StopIdle /\ IndIdle /\ WeeklyIdle /\ BreakoutIdle /\ RunIdle /\ ScanIdle

\* ProphetPredictor(...).predict_trend(monthly_df)
PredictTrend ==
    /\ mode = "forecast" /\ pc = "start"
    /\ prophet_pred' = predict_trend(monthly_df, config.enabled)
    /\ pc' = "prophet"
    /\ UNCHANGED <<mode, daily_df, config, stopVars, features, ml_score, indVars,
                   weeklyVars, monthlyVars, breakoutVars, runVars, scanVars>>

\* SimpleTrendPredictor(...).predict_trend(monthly_df)
SimplePredict ==
    /\ mode = "forecast" /\ pc = "start"
    /\ prophet_pred' = simple_predict_trend(monthly_df)
    /\ pc' = "simple"
    /\ UNCHANGED <<mode, daily_df, config, stopVars, features, ml_score, indVars,
                   weeklyVars, monthlyVars, breakoutVars, runVars, scanVars>>

NextForecast == PredictTrend \/ SimplePredict

SpecForecast == InitForecast /\ [][NextForecast]_vars

ForecastReturned == mode = "forecast" /\ pc \in {"prophet", "simple"} /\ prophet_pred # <<>>

\* C22: every forecast result that is not absent, from the decomposition
\* forecaster or from the linear-regression fallback, has a confidence in
\* [0,1] and the trend_direction that the seven thresholds give its
\* forecast_return, which is one of the seven labels.
C22_ForecastResultWellFormed ==
    ForecastReturned =>
        /\ prophet_pred[1].confidence >= 0 /\ prophet_pred[1].confidence <= 100
        /\ prophet_pred[1].trend_direction \in TrendLabels
        /\ prophet_pred[1].trend_direction = classify_trend(prophet_pred[1].forecast_return)

(***************************************************************************)
(* One watchlist row of MLRanker.rank_stocks (ml_ranker.py 84-126): the    *)
(* feature vector, the forecast, the score and the ranked row.  The latest *)
(* row of the feature table is given cell by cell, a cell being a number,  *)
(* NaN or an infinity; volatility_contraction is computed from the closes. *)
(***************************************************************************)
PosInf == <<1, 0>>
NegInf == <<-1, 0>>
IsInf(cell) == Len(cell) = 2

\* get_core_feature_names, simple_feature_engineering.py 309-334
get_core_feature_names ==
    {"MA10", "MA10_slope", "price_to_ma10", "return_6m", "return_12m",
     "ma_alignment", "price_to_52w_high", "trend_strength",
     "volatility_6m", "volatility_contraction", "max_drawdown_24m",
     "consolidation_score", "breakout_signal",
     "volume_ratio", "volume_up_down_ratio", "obv_trend",
     "volume_surge", "volume_cooperation",
     "MACD", "MACD_hist", "macd_cross", "momentum_6m", "momentum_acceleration",
     "support_level", "resistance_level", "distance_to_resistance",
     "quarter", "is_earnings_season"}

\* n * sum c^2 - (sum c)^2 over the last n closes: n (n - 1) times the square
\* of close.rolling(n).std() at the latest bar
RollingSquares(close, n) ==
    n * SeqSum([i \in 1..n |-> DfTail(close, n)[i] * DfTail(close, n)[i]])
    - SeqSum(DfTail(close, n)) * SeqSum(DfTail(close, n))

\* lines 92-94: vol_3m / vol_6m at the latest bar, in hundredths to the
\* hundredth below: its square is 5 * RollingSquares(3) / RollingSquares(6),
\* at most 2.5.  0/0 is NaN, x/0 an infinity
volatility_contraction(close) ==
    LET Ratio(v3, v6) ==
            IF v6 = 0
            THEN IF v3 = 0 THEN NaN ELSE PosInf
            ELSE Num(CHOOSE k \in 0..159 :
                        /\ k * k * v6 <= 50000 * v3
                        /\ (k + 1) * (k + 1) * v6 > 50000 * v3)
    IN Ratio(RollingSquares(close, 3), RollingSquares(close, 6))

\* features_df.iloc[-1], line 162
LatestRow(df, cells) ==
    [volatility_contraction |-> volatility_contraction(df.close)] @@ cells

\* lines 168-172 with NaN taken for the ratio 1
FeatureValueNanOne(cell) == IF IsNaN(cell) THEN 100 ELSE IF IsInf(cell) THEN 0 ELSE Val(cell)
\* lines 168-172: NaN and the infinities become 0
FeatureValue(cell) == IF IsNaN(cell) \/ IsInf(cell) THEN 0 ELSE Val(cell)

\* the vector over the names the latest row holds a number for
FeatureVectorOfNumbers(latest) ==
    [name \in {n \in get_core_feature_names :
                  n \in DOMAIN latest /\ ~IsNaN(latest[n]) /\ ~IsInf(latest[n])}
        |-> Val(latest[name])]
\* lines 165-174: an entry for every core name, 0 for a name the row lacks
FeatureVector(latest) ==
    [name \in get_core_feature_names |->
        IF name \in DOMAIN latest THEN FeatureValue(latest[name]) ELSE 0]

\* MLRanker.extract_features, lines 147-180.  create_investment_features
\* reads df['volume'] (line 108): without that column it raises, and the
\* except clause returns None
extract_features(df, cells) ==
    IF "volume" \notin df.columns THEN None
    ELSE FeatureVector(LatestRow(df, cells))

\* ProphetPredictor.extract_features_for_ml, lines 265-295: it predicts again
extract_features_for_ml(df, enabled) ==
    IF predict_trend(df, enabled) = <<>>
    THEN [prophet_forecast_return |-> 0, prophet_confidence |-> 0,
          prophet_trend_strength |-> 0, prophet_trend |-> 0,
          prophet_trend_change |-> 0, prophet_trend_slope |-> 0]
    ELSE [prophet_forecast_return |-> predict_trend(df, enabled)[1].forecast_return,
          prophet_confidence      |-> predict_trend(df, enabled)[1].confidence]
         @@ df.prophet.components

\* lines 111-113 with 0 in each of the three fields
ForecastFieldsZero(pred) ==
    [prophet_forecast_return |-> IF pred # <<>> THEN 10 * pred[1].forecast_return ELSE 0,
     prophet_trend           |-> IF pred # <<>> THEN pred[1].trend_direction ELSE "0",
     prophet_confidence      |-> IF pred # <<>> THEN pred[1].confidence ELSE 0]
\* lines 111-113: the forecast fields of the ranked row; the return in
\* hundredths of a percent, the trend a label
ForecastFields(pred) ==
    [prophet_forecast_return |-> IF pred # <<>> THEN 10 * pred[1].forecast_return ELSE 0,
     prophet_trend           |-> IF pred # <<>> THEN pred[1].trend_direction ELSE "unknown",
     prophet_confidence      |-> IF pred # <<>> THEN pred[1].confidence ELSE 0]

\* lines 84-126 for one row: what the body leaves in features, prophet_pred,
\* ml_score and result; result is None when the row is passed over
rank_stocks_row(df, cfg, cells) ==
    LET PassedOver(f) ==
            [features |-> f, prophet_pred |-> <<>>, ml_score |-> NotRun, result |-> None]
        RowOf(f, pred) ==
            [features     |-> f,
             prophet_pred |-> pred,
             ml_score     |-> [pre   |-> ScoreBeforeClamp(f, pred),
                               score |-> calculate_score(f, pred)],
             result       |-> [ml_score |-> calculate_score(f, pred)] @@ ForecastFields(pred)]
        Forecast(f, pred) ==
            RowOf(IF pred # <<>> THEN extract_features_for_ml(df, cfg.enabled) @@ f ELSE f,
                   pred)
        Extracted(f) ==
            IF f = None THEN PassedOver(f)
            ELSE Forecast(f, IF cfg.use_prophet /\ cfg.enabled
                             THEN predict_trend(df, cfg.enabled) ELSE <<>>)
    IN IF NRows(df) < 24 THEN PassedOver(NotRun)
       ELSE Extracted(extract_features(df, cells))

\* the cells of the names calculate_score reads: a value that earns points, or NaN
ScoredCells ==
    [MA10_slope : {NaN, Num(30)}, return_6m : {NaN, Num(150)},
     ma_alignment : {Num(2)}, consolidation_score : {Num(8)},
     volume_up_down_ratio : {NaN, Num(130)}, volume_cooperation : {Num(1)},
     MACD : {NaN, Num(5)}, macd_cross : {Num(0)}, momentum_6m : {NaN, Num(5)}]

\* the cells of the other names, all of one kind
OtherCells ==
    {[name \in get_core_feature_names \ ({"volatility_contraction"} \cup DOMAIN c) |-> cell] :
        c \in ScoredCells, cell \in {Num(1), NaN, PosInf, NegInf}}

LatestCells == {c @@ o : c \in ScoredCells, o \in OtherCells}

\* twelve flat months, the last three of them 96, 104, 100
SpikeCloses == [i \in 1..12 |-> IF i = 10 THEN 96 ELSE IF i = 11 THEN 104 ELSE 100]

RankSeries ==
    {MonthlySeries(tail, n, c, a) :
        tail \in {TrailingCloses(0, 0), TrailingCloses(2, 0), SpikeCloses},
        n \in {23, 24},
        c \in {{"date", "volume"}, {"volume"}, {"date"}},
        a \in {x \in ProphetAnswers :
                  x.yhat \in {88, 100, 103, 120} /\ x.yhat_upper - x.yhat \in {0, 5, 60}}}

InitRank ==
    /\ mode = "rank_row"
    /\ pc = "start"
    /\ monthly_df \in RankSeries
    /\ config \in [use_prophet : BOOLEAN, enabled : BOOLEAN]
    /\ indicator_row \in LatestCells
    /\ row_index = 0
    /\ features = Idle /\ prophet_pred = Idle /\ ml_score = Idle
    /\ monthly_label = Idle /\ first_label = Idle /\ calls = 0
    /\ daily_df = Idle
    /\ StopIdle /\ WeeklyIdle /\ BreakoutIdle /\ RunIdle /\ ScanIdle

RankRow ==
    /\ mode = "rank_row" /\ pc = "start"
    /\ \E out \in {rank_stocks_row(monthly_df, config, indicator_row)} :
          /\ features' = out.features
          /\ prophet_pred' = out.prophet_pred
          /\ ml_score' = out.ml_score
          /\ result' = out.result
    /\ pc' = "done"
    /\ UNCHANGED <<mode, daily_df, config, stopVars, indVars, weeklyVars, monthlyVars,
                   breakoutVars, runVars, loopVars>>

NextRank == RankRow

SpecRank == InitRank /\ [][NextRank]_vars

RowDone == mode = "rank_row" /\ pc = "done"
RowScored == RowDone /\ result # None

\* base 50 and the four tiers of the features, without the forecast's
RuleScore(f) == 50 + TrendPoints(f) + VolatilityPoints(f) + VolumePoints(f) + MomentumPoints(f)

\* the forecaster is switched off or not installed, the series has no date
\* column, or the library fails while fitting or predicting
ForecastUnavailable ==
    \/ ~config.use_prophet \/ ~config.enabled
    \/ "date" \notin monthly_df.columns
    \/ monthly_df.prophet.fails

\* the feature extractor returned a vector for the row
RowExtracted == RowDone /\ features # None /\ features # NotRun

RawCell(name) == LatestRow(monthly_df, indicator_row)[name]

\* C23: whenever extract_features returns a feature vector, the vector has an
\* entry for every name of get_core_feature_names and each entry is a finite
\* number: the number of the latest bar, or 0 where the latest bar holds NaN
\* or an infinity.
C23_FeatureVectorComplete ==
    RowExtracted =>
        \A name \in get_core_feature_names :
            /\ name \in DOMAIN features
            /\ features[name] \in Int
            /\ features[name] = IF IsNaN(RawCell(name)) \/ IsInf(RawCell(name))
                                THEN 0 ELSE Val(RawCell(name))

\* a vector whose latest bar holds NaN cells, infinities and numbers
C23_Witness ==
    /\ RowExtracted
    /\ IsNaN(RawCell("volatility_contraction")) /\ features.volatility_contraction = 0
    /\ IsNaN(RawCell("MA10_slope")) /\ features.MA10_slope = 0
    /\ RawCell("price_to_ma10") = PosInf /\ features.price_to_ma10 = 0
    /\ RawCell("distance_to_resistance") = PosInf /\ features.distance_to_resistance = 0
    /\ features.MACD = 5 /\ features.consolidation_score = 8

\* C29: in the ranker a feature that is absent (NaN) at the latest bar is
\* replaced by 0 before scoring and scored as the value 0: an absent
\* volatility_contraction earns the 10 points of the contraction tier (10
\* more than a ratio of 1 would), and an absent MA10_slope, return_6m, MACD or
\* momentum_6m earns nothing (the score is that of a losing value).
C29_AbsentFeatureScoredAsZero ==
    RowScored =>
        /\ \A name \in get_core_feature_names :
               IsNaN(RawCell(name)) => features[name] = 0
        /\ IsNaN(RawCell("volatility_contraction")) =>
               ml_score.pre
                 - ScoreBeforeClamp([features EXCEPT !.volatility_contraction = 100],
                                    prophet_pred) = 10
        /\ \A name \in {"MA10_slope", "return_6m", "MACD", "momentum_6m"} :
               IsNaN(RawCell(name)) =>
                   ml_score.pre = ScoreBeforeClamp([features EXCEPT ![name] = -1],
                                                   prophet_pred)

\* six flat months: both standard deviations are 0, the ratio is NaN and the
\* contraction tier is earned in full, while the absent slope, return, MACD
\* and momentum earn nothing
C29_Witness ==
    /\ RowScored
    /\ RollingSquares(monthly_df.close, 3) = 0 /\ RollingSquares(monthly_df.close, 6) = 0
    /\ features.volatility_contraction = 0
    /\ VolatilityPoints(features) = 20
    /\ \A name \in {"MA10_slope", "return_6m", "MACD", "momentum_6m"} :
           IsNaN(indicator_row[name]) /\ features[name] = 0
    /\ TrendPoints(features) = 10 /\ MomentumPoints(features) = 0

(***************************************************************************)
(* Instruments do not influence one another                                *)
(***************************************************************************)
\* what process_single_stock gives for the instrument alone
OwnOutcome(stock) ==
    (CHOOSE o \in WeeklyOutcomes : o[1] = config /\ o[2] = stock)[3]

RowOfCode(rows, code) == CHOOSE r \in Range(rows) : r.code = code

\* the signals the daily process_single_stock can give for a watchlist row
OwnSignals(row) ==
    {daily_scan_process_single_stock(input, stock_dirs[row.code].weekly, row, stage_config) :
        input \in DailyInputs}

\* the scores calculate_score can give an instrument
OwnScores == {calculate_score(f, p) : f \in RankFeatures, p \in RankForecasts}

====
